---------------------------- MODULE Spec2Model ----------------------------
(***************************************************************************)
(* A model of the SCALE codec of qdrvm/scale-codec-cpp: the compact        *)
(* integer codec, SmallBitVector<T>, BitVector (small-buffer optimised)    *)
(* and append_or_new_vec.                                                  *)
(*                                                                         *)
(* Unsigned integers that may exceed 31 bits (compact magnitudes, the      *)
(* uint32_t element count of append_or_new_vec) are little-endian          *)
(* sequences of base-256 digits; a canonical magnitude has no most         *)
(* significant zero digit.  Bytes are numbers 0..255.                      *)
(***************************************************************************)
EXTENDS Integers, Sequences, FiniteSets, TLC

VARIABLES
    sv,        \* SmallBitVector::bits_ of the vector under test
    sv_pc,     \* "ready" for a call | "returned" from the last one
    sv_prev,   \* bits_ before the last call
    sv_call,   \* the last call on it: [op, n, value, coll]
    sv_err,    \* what the last call threw ("none" when it returned)
    sv_ret,    \* what the last call returned (reads), FALSE otherwise
    sv_other,  \* bits_ of the other operand after swap (0 otherwise)
    sv_wire,   \* bytes written by the last encode (<<>> otherwise)
    sv_src,    \* the bits_ those bytes were encoded from (-1: none)
    ci_in,     \* compact codec: the magnitude given to encode
    ci_bytes,  \* compact codec: the bytes given to decode
    ci_enc,    \* compact codec: result of encode
    ci_dec,    \* compact codec: result of decode
    ci_pc,     \* compact codec: "idle" | "encoded" | "decoded" | "roundtrip"
    ap_buf,    \* append_or_new_vec: self_encoded
    ap_err,    \* append_or_new_vec: outcome of the last call
    ap_n,      \* append_or_new_vec: calls made so far
    ap_count,  \* the element count of the vector the buffer should hold
    ap_data,   \* the element bytes of the vector the buffer should hold
    bv,        \* BitVector: the objects, [alive, size, sbf, data, buf] each
    bv_heap,   \* BitVector: the heap buffers allocated and not freed
    bv_pc,     \* BitVector: "ready" for a call | "returned" from the last one
    bv_n,      \* BitVector: calls made so far
    bv_call,   \* BitVector: the last call, [op, obj, src, req]
    bv_prev,   \* BitVector: the objects before the last call
    bv_err,    \* BitVector: what the last call raised ("none" otherwise)
    bv_ub,     \* BitVector: the last call touched memory outside its storage
    bv_wire,   \* BitVector: bytes put by encode or given to decode
    fb_in,     \* FromBytes: the bytes of the input view in_
    fb_it,     \* FromBytes: the read position it_, as an offset into in_
    fb_pc,     \* FromBytes: "ready" for a call | "returned" from the last one
    fb_call,   \* FromBytes: the last call, [op, amount, from]
    fb_ret,    \* FromBytes: its outcome, [err, ok, bytes, outside, ub]
    to_out,    \* ToBytes: the container out_ refers to
    to_start,  \* the bytes that container held when the ToBytes was made
    fc_count,  \* ForCount: count_
    sk_bytes,  \* the bytes given to put and write since the sinks were made
    sk_pc,     \* sinks: "ready" for a call | "returned" from the last one
    sk_call,   \* sinks: the last call, [op, arg, err] and the sinks before it
    cd_pc,     \* codec calls: "ready" | "returned"
    cd_call,   \* codec calls: the last call and its inputs
    cd_ret,    \* codec calls: what the last call produced
    dl         \* a decode in progress: its input, position and loop state

svVars == <<sv, sv_pc, sv_prev, sv_call, sv_err, sv_ret, sv_other, sv_wire, sv_src>>
ciVars == <<ci_in, ci_bytes, ci_enc, ci_dec, ci_pc>>
apVars == <<ap_buf, ap_err, ap_n, ap_count, ap_data>>
bvVars == <<bv, bv_heap, bv_pc, bv_n, bv_call, bv_prev, bv_err, bv_ub, bv_wire>>
fbVars == <<fb_in, fb_it, fb_pc, fb_call, fb_ret>>
skVars == <<to_out, to_start, fc_count, sk_bytes, sk_pc, sk_call>>
cdVars == <<cd_pc, cd_call, cd_ret>>
dlVars == <<dl>>
vars == <<svVars, ciVars, apVars, bvVars, fbVars, skVars, cdVars, dlVars>>

\* The variables of the machines other than the SmallBitVector one.
otherSV == <<ciVars, apVars, bvVars, fbVars, skVars, cdVars, dlVars>>

\* The variables of the machines other than the compact codec one.
otherCI == <<svVars, apVars, bvVars, fbVars, skVars, cdVars, dlVars>>

\* The variables of the machines other than the append_or_new_vec one.
otherAP == <<svVars, ciVars, bvVars, fbVars, skVars, cdVars, dlVars>>

\* The variables of the machines other than the BitVector one.
otherBV == <<svVars, ciVars, apVars, fbVars, skVars, cdVars, dlVars>>

\* The variables of the machines other than the FromBytes one.
otherFB == <<svVars, ciVars, apVars, bvVars, skVars, cdVars, dlVars>>

\* The variables of the machines other than the sink one.
otherSK == <<svVars, ciVars, apVars, bvVars, fbVars, cdVars, dlVars>>

\* The variables of the machines other than the codec-call one.
otherCD == <<svVars, ciVars, apVars, bvVars, fbVars, skVars, dlVars>>

\* The variables of the machines other than the stepwise decode one.
otherDL == <<svVars, ciVars, apVars, bvVars, fbVars, skVars, cdVars>>

--------------------------------------------------------------------------
(* Bit arithmetic on non-negative integers.                                *)

CHAR_BIT == 8

Pow2(n) == 2 ^ n

RECURSIVE BitOr(_, _)
BitOr(a, b) ==
    IF a = 0 THEN b
    ELSE IF b = 0 THEN a
    ELSE (IF a % 2 = 1 \/ b % 2 = 1 THEN 1 ELSE 0) + 2 * BitOr(a \div 2, b \div 2)

RECURSIVE BitAnd(_, _)
BitAnd(a, b) ==
    IF a = 0 \/ b = 0 THEN 0
    ELSE (IF a % 2 = 1 /\ b % 2 = 1 THEN 1 ELSE 0) + 2 * BitAnd(a \div 2, b \div 2)

BitAt(x, i) == (x \div Pow2(i)) % 2

Min(a, b) == IF a < b THEN a ELSE b

--------------------------------------------------------------------------
(* Magnitudes as little-endian base-256 digit sequences.                   *)

RECURSIVE Canon(_)
Canon(d) == IF d # <<>> /\ d[Len(d)] = 0 THEN Canon(SubSeq(d, 1, Len(d) - 1)) ELSE d

RECURSIVE NatToDigits(_)
NatToDigits(n) == IF n = 0 THEN <<>> ELSE <<n % 256>> \o NatToDigits(n \div 256)

\* The value of at most three digits (below 2^24).
RECURSIVE DigitsToNat(_)
DigitsToNat(d) == IF d = <<>> THEN 0 ELSE d[1] + 256 * DigitsToNat(Tail(d))

Pad(d, n) == [i \in 1..n |-> IF i <= Len(d) THEN d[i] ELSE 0]

\* d << 2 over n digits, the bits shifted out of digit n dropped.
Shl2(d, n) ==
    LET p == Pad(d, n)
    IN  [i \in 1..n |-> ((p[i] * 4) % 256) + (IF i > 1 THEN p[i - 1] \div 64 ELSE 0)]

\* d >> 2 over the digits of d.
Shr2(d) ==
    [i \in 1..Len(d) |-> (d[i] \div 4) + (IF i < Len(d) THEN (d[i + 1] % 4) * 64 ELSE 0)]

\* m < 2^bits for a canonical magnitude m, bits = 6, 14 or 30.
Below(m, bits) ==
    LET full == bits \div 8
        rest == bits % 8
    IN  \/ Len(m) <= full
        \/ Len(m) = full + 1 /\ m[full + 1] < Pow2(rest)

--------------------------------------------------------------------------
(* Compact integer codec (classic SCALE scheme): four tiers selected by    *)
(* magnitude.                                                              *)

kMaxCompactBytes == 67

\* An encoder that never uses the one-byte tier.
encodeCompact_no_single_byte(m) ==
    IF Below(m, 14) THEN
        LET x == Shl2(m, 2)
        IN  [err |-> "none", bytes |-> <<x[1] + 1, x[2]>>]
    ELSE IF Below(m, 30) THEN
        LET x == Shl2(m, 4)
        IN  [err |-> "none", bytes |-> <<x[1] + 2, x[2], x[3], x[4]>>]
    ELSE IF Len(m) > kMaxCompactBytes THEN
        [err |-> "VALUE_TOO_BIG_FOR_COMPACT_REPRESENTATION", bytes |-> <<>>]
    ELSE
        [err |-> "none", bytes |-> <<(Len(m) - 4) * 4 + 3>> \o m]

\* The bytes of the compact encoding of the canonical magnitude m.
encodeCompact(m) ==
    IF Below(m, 6) THEN
        [err |-> "none", bytes |-> <<DigitsToNat(m) * 4>>]
    ELSE IF Below(m, 14) THEN
        LET x == Shl2(m, 2)
        IN  [err |-> "none", bytes |-> <<x[1] + 1, x[2]>>]
    ELSE IF Below(m, 30) THEN
        LET x == Shl2(m, 4)
        IN  [err |-> "none", bytes |-> <<x[1] + 2, x[2], x[3], x[4]>>]
    ELSE IF Len(m) > kMaxCompactBytes THEN
        [err |-> "VALUE_TOO_BIG_FOR_COMPACT_REPRESENTATION", bytes |-> <<>>]
    ELSE
        [err |-> "none", bytes |-> <<(Len(m) - 4) * 4 + 3>> \o m]

\* Number of bytes encodeCompact writes for m.
lengthOfEncodedCompactInteger(m) ==
    IF Below(m, 6) THEN 1
    ELSE IF Below(m, 14) THEN 2
    ELSE IF Below(m, 30) THEN 4
    ELSE 1 + Len(m)

DecodeFail(e) == [err |-> e, value |-> <<>>, used |-> 0]

\* A decoder without the canonicality validation.
decodeCompact_unvalidated(w) ==
    IF Len(w) < 1 THEN DecodeFail("NOT_ENOUGH_DATA")
    ELSE
    LET first == w[1]
        flag == first % 4
        need == CASE flag = 0 -> 1 [] flag = 1 -> 2 [] flag = 2 -> 4
                  [] OTHER -> 1 + (first \div 4) + 4
    IN  IF Len(w) < need THEN DecodeFail("NOT_ENOUGH_DATA")
        ELSE IF flag = 3
             THEN [err |-> "none", value |-> Canon(SubSeq(w, 2, need)), used |-> need]
             ELSE [err |-> "none", value |-> Canon(Shr2(SubSeq(w, 1, need))),
                   used |-> need]

\* Decoding from the front of the byte sequence w: the canonical magnitude
\* and the number of bytes consumed, or the error raised.
decodeCompact(w) ==
    IF Len(w) < 1 THEN DecodeFail("NOT_ENOUGH_DATA")
    ELSE
    LET first == w[1]
        flag == first % 4
    IN  CASE flag = 0 ->
                [err |-> "none", value |-> Canon(<<first \div 4>>), used |-> 1]
          [] flag = 1 ->
                IF Len(w) < 2 THEN DecodeFail("NOT_ENOUGH_DATA")
                ELSE LET number == Canon(Shr2(SubSeq(w, 1, 2)))
                     IN  IF Below(number, 6)
                         THEN DecodeFail("REDUNDANT_COMPACT_ENCODING")
                         ELSE [err |-> "none", value |-> number, used |-> 2]
          [] flag = 2 ->
                IF Len(w) < 4 THEN DecodeFail("NOT_ENOUGH_DATA")
                ELSE LET number == Canon(Shr2(SubSeq(w, 1, 4)))
                     IN  IF Below(number, 14)
                         THEN DecodeFail("REDUNDANT_COMPACT_ENCODING")
                         ELSE [err |-> "none", value |-> number, used |-> 4]
          [] OTHER ->
                LET bytes_count == (first \div 4) + 4
                IN  IF Len(w) < 1 + bytes_count THEN DecodeFail("NOT_ENOUGH_DATA")
                    ELSE LET raw == SubSeq(w, 2, 1 + bytes_count)
                         IN  IF raw[bytes_count] = 0 \/ Below(Canon(raw), 30)
                             THEN DecodeFail("REDUNDANT_COMPACT_ENCODING")
                             ELSE [err |-> "none", value |-> raw,
                                   used |-> 1 + bytes_count]

--------------------------------------------------------------------------
(* append_or_new_vec (encode_append.hpp): add one opaque blob to an        *)
(* encoded vector of opaque blobs by rewriting only the length prefix.     *)

\* m + 1 on a magnitude of any size.
RECURSIVE Inc(_)
Inc(d) ==
    IF d = <<>> THEN <<1>>
    ELSE IF d[1] < 255 THEN <<d[1] + 1>> \o Tail(d)
    ELSE <<0>> \o Inc(Tail(d))

\* old_size + 1 in uint32_t arithmetic.
IncU32(d) == Canon(SubSeq(Inc(Pad(d, 4)), 1, 4))

\* decode<Compact<uint32_t>>: the compact integer must fit the target.
decodeCompactU32(w) ==
    LET r == decodeCompact(w)
    IN  IF r.err = "none" /\ Len(r.value) > 4
        THEN DecodeFail("DECODED_VALUE_OVERFLOWS_TARGET")
        ELSE r

\* std::vector<uint8_t>::resize on the storage mem holding size live bytes:
\* growth appends zero bytes, shrinking leaves the storage as it is.
vec_resize(mem, size, new_size) ==
    IF new_size <= size THEN mem
    ELSE [i \in 1..new_size |-> IF i <= size THEN mem[i] ELSE 0]

\* std::memmove(mem + dst, mem + src, n) within one storage.
memmove(mem, dst, src, n) ==
    [i \in 1..Len(mem) |-> IF dst < i /\ i <= dst + n THEN mem[i - dst + src]
                            ELSE mem[i]]

\* The call on the buffer self_encoded with the blob input.  dead says what
\* a read of storage past the vector's size does: "kept" (the bytes are
\* still there) or "trap" (an instrumented build stops).
append_or_new_vec(self_encoded, input, dead) ==
    IF self_encoded = <<>> THEN
        [err |-> "none", buf |-> encodeCompact(<<1>>).bytes \o input]
    ELSE
    LET size == decodeCompactU32(self_encoded)
    IN  IF size.err # "none" THEN [err |-> size.err, buf |-> self_encoded]
        ELSE
        LET old_size == size.value
            new_size == IncU32(old_size)
            encoded_old_size_len == lengthOfEncodedCompactInteger(old_size)
            encoded_new_size == encodeCompact(new_size).bytes
            old_data_size == Len(self_encoded)
            encoded_new_size_len == Len(encoded_new_size)
            \* size_t arithmetic: the wrap of a negative difference cancels
            \* in old_data_size + shift_size
            shift_size == encoded_new_size_len - encoded_old_size_len
            resized_size == old_data_size + shift_size
            payload_len == old_data_size - encoded_old_size_len
            reads_dead == payload_len > 0
                            /\ encoded_old_size_len + payload_len > resized_size
            shifted ==
                IF encoded_old_size_len # encoded_new_size_len
                THEN memmove(vec_resize(self_encoded, old_data_size, resized_size),
                             encoded_new_size_len, encoded_old_size_len,
                             payload_len)
                ELSE self_encoded
            live == SubSeq(shifted, 1, resized_size)
            prefixed == [i \in 1..Len(live) |->
                            IF i <= encoded_new_size_len THEN encoded_new_size[i]
                            ELSE live[i]]
        IN  IF reads_dead /\ dead = "trap"
            THEN [err |-> "trap", buf |-> SubSeq(self_encoded, 1, resized_size)]
            ELSE [err |-> "none", buf |-> prefixed \o input]

\* No buffer has been given to append_or_new_vec.
IdleAppend ==
    /\ ap_buf = <<>> /\ ap_err = "none" /\ ap_n = 0
    /\ ap_count = <<>> /\ ap_data = <<>>

--------------------------------------------------------------------------
(* SmallBitVector<T>, instantiated with T = uint8_t.  Arithmetic on T is   *)
(* modulo 2^all_bits; a call returns [v |-> new bits_, err |-> exception]. *)

all_bits == 8

size_bits ==
    IF all_bits >= 522 THEN 10
    ELSE IF all_bits >= 265 THEN 9
    ELSE IF all_bits >= 136 THEN 8
    ELSE IF all_bits >= 71 THEN 7
    ELSE IF all_bits >= 38 THEN 6
    ELSE IF all_bits >= 21 THEN 5
    ELSE IF all_bits >= 12 THEN 4
    ELSE 3

data_bits == all_bits - size_bits

TMod == Pow2(all_bits)

data_mask == (TMod - 1) \div Pow2(size_bits)

size_mask == ((TMod - 1) * Pow2(data_bits)) % TMod

\* static_cast<T>(x)
ToT(x) == x % TMod

\* (static_cast<T>(1) << n) - 1
LowMask(n) == Pow2(n) - 1

\* x & ~m for words of T
AndNot(x, m) == BitAnd(x, (TMod - 1) - ToT(m))

Ok(b) == [v |-> b, err |-> "none"]

Throw(b, e) == [v |-> b, err |-> e]

SBV_size(b) == b \div Pow2(data_bits)

SBV_capacity == data_bits

SBV_data(b) == BitAnd(b, data_mask)

\* bits_ = (new_size << data_bits) | new_data
SBV_pack(new_size, new_data) == BitOr(ToT(new_size * Pow2(data_bits)), new_data)

\* operator[](index) const
SBV_get(b, index) == BitAnd(b \div Pow2(index), 1) = 1

\* BitReference::operator=(bool)
SBV_BitReference_assign(b, index, value) ==
    IF value THEN Ok(BitOr(b, ToT(Pow2(index))))
    ELSE Ok(AndNot(b, Pow2(index)))

\* at(index): the exception thrown and the value returned
SBV_at(b, index) ==
    IF index >= SBV_size(b) THEN [err |-> "out_of_range", ret |-> FALSE]
    ELSE [err |-> "none", ret |-> SBV_get(b, index)]

\* The loop that sets or clears one bit per element of a collection,
\* starting at bit position pos.
RECURSIVE SBV_fill(_, _, _)
SBV_fill(new_data, pos, coll) ==
    IF coll = <<>> THEN new_data
    ELSE SBV_fill(IF Head(coll) THEN BitOr(new_data, ToT(Pow2(pos)))
                  ELSE AndNot(new_data, Pow2(pos)),
                  pos + 1, Tail(coll))

\* SmallBitVector(first, last), SmallBitVector(collection),
\* operator=(const Collection &)
SBV_from_collection(b, coll) ==
    IF Len(coll) > data_bits THEN Throw(b, "overflow_error")
    ELSE Ok(SBV_pack(Len(coll), BitAnd(SBV_fill(0, 0, coll), data_mask)))

SBV_clear(b) == Ok(0)

SBV_reserve(b, new_capacity) ==
    IF new_capacity > data_bits THEN Throw(b, "overflow_error") ELSE Ok(b)

\* resize(new_size) without the capacity check
SBV_resize_unchecked(b, new_size) ==
    Ok(SBV_pack(new_size, BitAnd(BitAnd(b, data_mask), LowMask(new_size))))

\* resize(new_size)
SBV_resize(b, new_size) ==
    IF new_size > data_bits THEN Throw(b, "out_of_range")
    ELSE LET current_data == BitAnd(b, data_mask)
             new_data == BitAnd(current_data, LowMask(new_size))
         IN  Ok(SBV_pack(new_size, new_data))

\* resize(new_size, value)
SBV_resize_value(b, new_size, value) ==
    LET current_size == SBV_size(b)
        current_data == BitAnd(b, data_mask)
    IN  IF new_size = current_size THEN Ok(b)
        ELSE IF new_size > data_bits THEN Throw(b, "out_of_range")
        ELSE IF new_size > current_size THEN
            LET added_bits == new_size - current_size
                new_bits == ToT((IF value THEN LowMask(added_bits) ELSE 0)
                                * Pow2(current_size))
            IN  Ok(SBV_pack(new_size, BitOr(current_data, new_bits)))
        ELSE Ok(SBV_pack(new_size, BitAnd(current_data, LowMask(new_size))))

SBV_push_back(b, value) ==
    LET current_size == SBV_size(b)
        b1 == SBV_pack(current_size + 1, BitAnd(b, data_mask))
    IN  IF current_size >= data_bits THEN Throw(b, "overflow_error")
        ELSE Ok(IF value THEN BitOr(b1, ToT(Pow2(current_size))) ELSE b1)

SBV_pop_back(b) ==
    LET current_size == SBV_size(b)
    IN  IF current_size = 0 THEN Throw(b, "out_of_range")
        ELSE LET b1 == AndNot(b, Pow2(current_size - 1))
             IN  Ok(SBV_pack(current_size - 1, BitAnd(b1, data_mask)))

\* insert(size_t pos, bool value)
SBV_insert(b, pos, value) ==
    LET current_size == SBV_size(b)
        data_val == BitAnd(b, data_mask)
        lower == BitAnd(data_val, LowMask(pos))
        upper == ToT(AndNot(data_val, LowMask(pos)) * 2)
        new_data == SBV_fill(BitOr(lower, upper), pos, <<value>>)
    IN  IF current_size >= data_bits THEN Throw(b, "overflow_error")
        ELSE IF pos > current_size THEN Throw(b, "out_of_range")
        ELSE Ok(SBV_pack(current_size + 1, BitAnd(new_data, data_mask)))

\* insert(Iterator pos, InputIt first, InputIt last); insert(Iterator pos,
\* size_t count, bool value) is the same code with coll = count copies of value.
SBV_insert_range(b, pos, coll) ==
    LET current_size == SBV_size(b)
        new_bits_count == Len(coll)
        data_val == BitAnd(b, data_mask)
        lower == BitAnd(data_val, LowMask(pos))
        upper == ToT(AndNot(data_val, LowMask(pos)) * Pow2(new_bits_count))
        new_data == SBV_fill(BitOr(lower, upper), pos, coll)
    IN  IF new_bits_count = 0 THEN Ok(b)
        ELSE IF pos > current_size THEN Throw(b, "out_of_range")
        ELSE IF current_size + new_bits_count > data_bits
             THEN Throw(b, "overflow_error")
        ELSE Ok(SBV_pack(current_size + new_bits_count,
                         BitAnd(new_data, data_mask)))

SBV_insert_count(b, pos, count, value) ==
    SBV_insert_range(b, pos, [i \in 1..count |-> value])

SBV_erase(b, pos) ==
    LET current_size == SBV_size(b)
        data_val == BitAnd(b, data_mask)
        lower == BitAnd(data_val, LowMask(pos))
        upper == data_val \div Pow2(pos + 1)
        new_data == BitOr(lower, ToT(upper * Pow2(pos)))
    IN  IF pos >= current_size THEN Throw(b, "out_of_range")
        ELSE Ok(SBV_pack(current_size - 1, BitAnd(new_data, data_mask)))

SBV_assign(b, count, value) ==
    IF count > data_bits THEN Throw(b, "out_of_range")
    ELSE LET new_data == IF value THEN LowMask(count) ELSE 0
         IN  Ok(SBV_pack(count, BitAnd(new_data, data_mask)))

\* operator==
SBV_equal(a, b) == SBV_size(a) = SBV_size(b) /\ SBV_data(a) = SBV_data(b)

\* The bytes put by the loop of encode: one per CHAR_BIT bits of size.
RECURSIVE SBV_encode_bytes(_, _, _)
SBV_encode_bytes(data_val, i, size) ==
    IF i >= size THEN <<>>
    ELSE <<(data_val \div Pow2(i)) % 256>> \o SBV_encode_bytes(data_val, i + CHAR_BIT, size)

\* encode(const SmallBitVector &, Encoder &)
SBV_encode(b) ==
    encodeCompact(NatToDigits(SBV_size(b))).bytes
        \o SBV_encode_bytes(BitAnd(b, data_mask), 0, SBV_size(b))

\* The loop of decode: bits |= static_cast<T>(byte) << i.
RECURSIVE SBV_decode_bits(_, _, _, _)
SBV_decode_bits(bits, w, i, size) ==
    IF i >= size THEN bits
    ELSE SBV_decode_bits(BitOr(bits, ToT(Head(w) * Pow2(i))), Tail(w),
                         i + CHAR_BIT, size)

\* decode(SmallBitVector &v, Decoder &): the vector after the call; the
\* declared size is below 2^24 for every input offered.
SBV_decode(b, w) ==
    LET len == decodeCompact(w)
        size == DigitsToNat(len.value)
        byte_count == (size + CHAR_BIT - 1) \div CHAR_BIT
        rest == SubSeq(w, len.used + 1, Len(w))
    IN  IF len.err # "none" THEN Throw(b, len.err)
        ELSE IF Len(rest) < byte_count THEN Throw(b, "NOT_ENOUGH_DATA")
        ELSE Ok(SBV_decode_bits(0, rest, 0, size))

--------------------------------------------------------------------------
(* BitVector: size_, the small-buffer flag sbf_, and the union of the      *)
(* inline array arr_ with the heap vector vec_.  An object is              *)
(*   [alive, size, sbf, data, buf]                                         *)
(* with data the bytes of arr_ (sbf = 1) or of vec_ (sbf = 0) and buf the  *)
(* identity of vec_'s heap buffer (0: none).  A call returns               *)
(*   [b, h, ub, err]: the object, the set of allocated heap buffers,       *)
(* whether it touched memory outside the storage, and the error raised.    *)

\* sizeof(std::vector<uint8_t>) where pointers are eight bytes wide.
arr_size == 24

InlineBits == arr_size * CHAR_BIT

Objs == {1, 2}

Zeros(n) == [i \in 1..n |-> 0]

CeilBytes(bits) == (bits + CHAR_BIT - 1) \div CHAR_BIT

\* The storage of an object that is not constructed.
NoObject ==
    [alive |-> FALSE, size |-> 0, sbf |-> 1, data |-> Zeros(arr_size), buf |-> 0]

BVResult(b, h, ub, err) == [b |-> b, h |-> h, ub |-> ub, err |-> err]

\* The heap buffer the allocator hands out next.
NewBuf(h) ==
    CHOOSE id \in 1..(Cardinality(Objs) + 1) :
        id \notin h /\ \A j \in 1..(id - 1) : j \in h

\* bool operator[](size_t) const on the bytes data.
GetBit(data, index) ==
    IF index \div CHAR_BIT < Len(data)
    THEN BitAt(data[(index \div CHAR_BIT) + 1], index % CHAR_BIT) = 1
    ELSE FALSE

\* BitReference::operator=(bool) for every index in lo..hi-1, the bit
\* written at index being f[index]; bits outside the bytes are not stored.
WriteBits(data, lo, hi, f) ==
    [k \in 1..Len(data) |->
        IF hi <= (k - 1) * CHAR_BIT \/ lo >= k * CHAR_BIT THEN data[k]
        ELSE LET bit(j) ==
                     LET index == (k - 1) * CHAR_BIT + j
                     IN  IF lo <= index /\ index < hi
                         THEN (IF f[index] THEN 1 ELSE 0)
                         ELSE BitAt(data[k], j)
             IN  bit(0) + 2 * bit(1) + 4 * bit(2) + 8 * bit(3) + 16 * bit(4)
                     + 32 * bit(5) + 64 * bit(6) + 128 * bit(7)]

\* The logical bit sequence of an object.
BitVector_bits(b) == [i \in 1..b.size |-> GetBit(b.data, i - 1)]

BitVector_default ==
    [alive |-> TRUE, size |-> 0, sbf |-> 1, data |-> Zeros(arr_size), buf |-> 0]

BitVector_capacity(b) ==
    IF b.sbf = 1 THEN arr_size * CHAR_BIT ELSE Len(b.data) * CHAR_BIT

\* bytes(): the first ceil(size / 8) bytes of the active storage.
BitVector_bytes(b) ==
    IF b.size # 0 THEN SubSeq(b.data, 1, Min(CeilBytes(b.size), Len(b.data)))
    ELSE <<>>

\* std::vector<uint8_t>::resize(n, 0).
vector_resize(d, n) == [i \in 1..n |-> IF i <= Len(d) THEN d[i] ELSE 0]

\* vec_ takes a copy of all of arr_ in a fresh heap buffer.
switch_to_vector(b, h) ==
    LET id == NewBuf(h)
    IN  [b |-> [b EXCEPT !.sbf = 0, !.buf = id], h |-> h \cup {id}]

\* A move constructor that leaves other as it was.
BitVector_move_construct_shared(other, h) ==
    [b |-> [other EXCEPT !.alive = TRUE], other |-> other, h |-> h]

\* A reserve that leaves the inline array whatever is asked for.
BitVector_reserve_eager(b, h, new_capacity) ==
    IF b.sbf = 1
    THEN LET s == switch_to_vector(b, h) IN BVResult(s.b, s.h, FALSE, "none")
    ELSE BVResult(b, h, FALSE, "none")

BitVector_reserve(b, h, new_capacity) ==
    IF new_capacity <= BitVector_capacity(b) THEN BVResult(b, h, FALSE, "none")
    ELSE IF b.sbf = 1
         THEN LET s == switch_to_vector(b, h) IN BVResult(s.b, s.h, FALSE, "none")
         ELSE BVResult(b, h, FALSE, "none")

\* A resize that leaves the byte holding the new last bit as it is.
BitVector_resize_unmasked(b, h, new_size) ==
    LET s == IF b.sbf = 1 /\ new_size > arr_size * CHAR_BIT
             THEN switch_to_vector(b, h)
             ELSE [b |-> b, h |-> h]
        b1 == s.b
        idx == new_size \div CHAR_BIT
        d3 == IF b1.sbf = 0 /\ new_size # Len(b1.data) * CHAR_BIT
              THEN vector_resize(b1.data, CeilBytes(new_size))
              ELSE b1.data
        first == CeilBytes(b1.size)
        zero_outside == b1.sbf = 1 /\ new_size > b1.size
                            /\ first <= idx /\ idx >= arr_size
        d4 == IF b1.sbf = 1 /\ new_size > b1.size
              THEN [i \in 1..Len(d3) |->
                       IF first <= i - 1 /\ i - 1 <= idx THEN 0 ELSE d3[i]]
              ELSE d3
    IN  BVResult([b1 EXCEPT !.size = new_size, !.data = d4], s.h,
                 zero_outside, "none")

BitVector_resize(b, h, new_size) ==
    LET s == IF b.sbf = 1 /\ new_size > arr_size * CHAR_BIT
             THEN switch_to_vector(b, h)
             ELSE [b |-> b, h |-> h]
        b1 == s.b
        idx == new_size \div CHAR_BIT
        \* data[new_size / 8] &= 0xFF >> (8 - new_size % 8)
        mask_outside == new_size <= b1.size /\ idx >= Len(b1.data)
        d2 == IF new_size <= b1.size /\ idx < Len(b1.data)
              THEN [b1.data EXCEPT
                       ![idx + 1] = BitAnd(@, Pow2(new_size % CHAR_BIT) - 1)]
              ELSE b1.data
        d3 == IF b1.sbf = 0 /\ new_size # Len(d2) * CHAR_BIT
              THEN vector_resize(d2, CeilBytes(new_size))
              ELSE d2
        \* for (i = ceil(size_ / 8); i <= new_size / 8; ++i) arr_[i] = 0
        first == CeilBytes(b1.size)
        zero_outside == b1.sbf = 1 /\ new_size > b1.size
                            /\ first <= idx /\ idx >= arr_size
        d4 == IF b1.sbf = 1 /\ new_size > b1.size
              THEN [i \in 1..Len(d3) |->
                       IF first <= i - 1 /\ i - 1 <= idx THEN 0 ELSE d3[i]]
              ELSE d3
    IN  BVResult([b1 EXCEPT !.size = new_size, !.data = d4], s.h,
                 mask_outside \/ zero_outside, "none")

BitVector_clear(b, h) == BitVector_resize(b, h, 0)

BitVector_resize_value(b, h, new_size, value) ==
    IF new_size > b.size THEN
        LET r == BitVector_resize(b, h, new_size)
        IN  BVResult([r.b EXCEPT !.data =
                          WriteBits(@, b.size, new_size,
                                [i \in b.size..(new_size - 1) |-> value])],
                     r.h, r.ub \/ new_size > Len(r.b.data) * CHAR_BIT, "none")
    ELSE IF new_size < b.size THEN BitVector_resize(b, h, new_size)
    ELSE BVResult(b, h, FALSE, "none")

BitVector_push_back(b, h, value) ==
    LET index == b.size
        r == BitVector_resize(b, h, index + 1)
    IN  IF value
        THEN BVResult([r.b EXCEPT !.data =
                           WriteBits(@, index, index + 1,
                                [i \in {index} |-> TRUE])],
                      r.h, r.ub \/ index >= Len(r.b.data) * CHAR_BIT, "none")
        ELSE r

BitVector_insert(b, h, index, value) ==
    IF index > b.size THEN BVResult(b, h, FALSE, "out_of_range")
    ELSE
    LET r == BitVector_resize(b, h, b.size + 1)
        old == r.b.data
    IN  BVResult([r.b EXCEPT !.data =
                      WriteBits(@, index, r.b.size,
                                [i \in index..(r.b.size - 1) |->
                                    IF i = index THEN value
                                    ELSE GetBit(old, i - 1)])],
                 r.h, r.ub \/ r.b.size > Len(old) * CHAR_BIT, "none")

BitVector_insert_count(b, h, index, count, value) ==
    IF index > b.size THEN BVResult(b, h, FALSE, "out_of_range")
    ELSE IF count = 0 THEN BVResult(b, h, FALSE, "none")
    ELSE
    LET r == BitVector_resize(b, h, b.size + count)
        old == r.b.data
    IN  BVResult([r.b EXCEPT !.data =
                      WriteBits(@, index, r.b.size,
                                [i \in index..(r.b.size - 1) |->
                                    IF i < index + count THEN value
                                    ELSE GetBit(old, i - count)])],
                 r.h, r.ub \/ r.b.size > Len(old) * CHAR_BIT, "none")

BitVector_insert_range(b, h, index, coll) ==
    IF index > b.size THEN BVResult(b, h, FALSE, "out_of_range")
    ELSE IF Len(coll) = 0 THEN BVResult(b, h, FALSE, "none")
    ELSE
    LET count == Len(coll)
        r == BitVector_resize(b, h, b.size + count)
        old == r.b.data
    IN  BVResult([r.b EXCEPT !.data =
                      WriteBits(@, index, r.b.size,
                                [i \in index..(r.b.size - 1) |->
                                    IF i < index + count
                                    THEN coll[i - index + 1]
                                    ELSE GetBit(old, i - count)])],
                 r.h, r.ub \/ r.b.size > Len(old) * CHAR_BIT, "none")

BitVector_assign(b, h, count, value) ==
    LET r == BitVector_resize(b, h, count)
    IN  BVResult([r.b EXCEPT !.data = WriteBits(@, 0, count,
                                [i \in 0..(count - 1) |-> value])],
                 r.h, r.ub \/ count > Len(r.b.data) * CHAR_BIT, "none")

\* BitVector(const BitVector &other); junk is what the bytes of arr_ that
\* the constructor leaves uninitialized hold.
BitVector_copy_construct(other, h, junk) ==
    IF other.sbf = 1 THEN
        BVResult([alive |-> TRUE, size |-> other.size, sbf |-> 1,
                  data |-> other.data, buf |-> 0], h, FALSE, "none")
    ELSE IF other.size <= arr_size * CHAR_BIT THEN
        BVResult([alive |-> TRUE, size |-> other.size, sbf |-> 1,
                  data |-> [i \in 1..arr_size |->
                               IF i <= Len(other.data) THEN other.data[i] ELSE junk],
                  buf |-> 0],
                 h, Len(other.data) > arr_size, "none")
    ELSE
        LET id == NewBuf(h)
        IN  BVResult([alive |-> TRUE, size |-> other.size, sbf |-> 0,
                      data |-> other.data, buf |-> id], h \cup {id}, FALSE, "none")

\* BitVector(BitVector &&other): the new object, and other as it is left
\* (an inline vector of size 0 over the bytes of the moved-from vec_, which
\* holds no buffer).
BitVector_move_construct(other, h) ==
    [b |-> [alive |-> TRUE, size |-> other.size, sbf |-> other.sbf,
            data |-> other.data, buf |-> other.buf],
     other |-> [alive |-> TRUE, size |-> 0, sbf |-> 1,
                data |-> IF other.sbf = 1 THEN [other.data EXCEPT ![1] = 0]
                         ELSE Zeros(arr_size),
                buf |-> 0],
     h |-> h]

\* ~BitVector(): the buffers left allocated.
BitVector_destroy(b, h) == IF b.sbf = 0 THEN h \ {b.buf} ELSE h

BitVector_equal(a, b) ==
    a.size = b.size /\ BitVector_bytes(a) = BitVector_bytes(b)

\* The bytes encode puts, and whether it read outside the storage.
BitVector_encode(b) ==
    LET byte_size == CeilBytes(b.size)
    IN  [bytes |-> encodeCompact(NatToDigits(b.size)).bytes
                       \o [i \in 1..byte_size |->
                              IF i <= Len(b.data) THEN b.data[i] ELSE 0],
         ub |-> byte_size > Len(b.data)]

\* A decode that accepts whatever the last byte holds.
BitVector_decode_unchecked(b, h, wire) ==
    LET c == decodeCompact(wire)
    IN  IF c.err # "none" THEN BVResult(b, h, FALSE, c.err)
        ELSE
        LET bit_size == DigitsToNat(c.value)
            byte_size == CeilBytes(bit_size)
            rest == SubSeq(wire, c.used + 1, Len(wire))
        IN  IF Len(rest) < byte_size THEN BVResult(b, h, FALSE, "NOT_ENOUGH_DATA")
            ELSE
            LET r == BitVector_resize(b, h, bit_size)
            IN  BVResult([r.b EXCEPT !.data =
                              [i \in 1..Len(r.b.data) |->
                                  IF i <= byte_size THEN rest[i] ELSE r.b.data[i]]],
                         r.h, r.ub, "none")

\* decode(BitVector &, Decoder &) from the bytes wire.
BitVector_decode(b, h, wire) ==
    LET c == decodeCompact(wire)
    IN  IF c.err # "none" THEN BVResult(b, h, FALSE, c.err)
        ELSE IF Len(c.value) > 8
        THEN BVResult(b, h, FALSE, "DECODED_VALUE_OVERFLOWS_TARGET")
        ELSE
        LET bit_size == DigitsToNat(c.value)
            byte_size == CeilBytes(bit_size)
            rest == SubSeq(wire, c.used + 1, Len(wire))
        IN  IF Len(rest) < byte_size THEN BVResult(b, h, FALSE, "NOT_ENOUGH_DATA")
            ELSE
            LET r == BitVector_resize(b, h, bit_size)
                data == [i \in 1..Len(r.b.data) |->
                            IF i <= byte_size THEN rest[i] ELSE r.b.data[i]]
                last_bits == bit_size % CHAR_BIT
                unused == last_bits > 0 /\ byte_size > 0
                              /\ byte_size <= Len(data)
                              /\ BitAnd(data[byte_size], 255 * Pow2(last_bits)) # 0
            IN  BVResult([r.b EXCEPT !.data = data], r.h,
                         r.ub \/ byte_size > Len(data),
                         IF unused THEN "UNUSED_BITS_ARE_SET" ELSE "none")

\* What the members hold before a constructor without member initializers
\* runs: size_ and sbf_ of any value, and the bytes of the union all zero
\* (read as vec_: a vector without a buffer) or all ones (read as vec_:
\* three wild pointers).
UninitSize == 1073741824

Uninitialized ==
    [size : {0, UninitSize}, sbf : {0, 1}, fill : {0, 255}]

\* The std::vector<bool> of n booleans given to the constructors.
BoolsOf(n) == [i \in 1..n |-> i % 3 # 0]

\* BitVector(std::initializer_list<bool>) and BitVector(const Container &):
\* resize(n) on the members as they are, then (*this)[i] = value for each.
BitVector_construct_from(bools, h, junk) ==
    LET n == Len(bools)
        arr == [i \in 1..arr_size |-> junk.fill]
        b0 == [alive |-> TRUE, size |-> junk.size, sbf |-> junk.sbf,
               data |-> IF junk.sbf = 1 THEN arr ELSE <<>>, buf |-> 0]
        \* the first allocation of a vec_ that holds no buffer
        id == NewBuf(h)
        grows == junk.sbf = 0 /\ n > 0
        r == BitVector_resize(b0, IF grows THEN h \cup {id} ELSE h, n)
        b1 == IF grows THEN [r.b EXCEPT !.buf = id] ELSE r.b
        \* vec_.data() and vec_.resize() on wild pointers
        wild == junk.sbf = 0 /\ junk.fill # 0
    IN  BVResult([b1 EXCEPT !.data =
                      WriteBits(@, 0, n, [i \in 0..(n - 1) |-> bools[i + 1]])],
                 r.h, r.ub \/ wild \/ n > Len(b1.data) * CHAR_BIT, "none")

--------------------------------------------------------------------------
(* The BitVector machine: two objects, constructed, copied, moved,         *)
(* destroyed and modified, a bounded number of calls in all.               *)

MaxOps == 3

\* Lengths asked of resize: within one byte, within two, past the inline
\* capacity.
BVSizes == {7, 9, InlineBits + 1}

\* Lengths asked of the filling resize.
BVFills == {10, InlineBits + 1}

BVReserves == {10, InlineBits + 1}

\* The number of bits given to insert(pos, count, value) and assign.
MaxCount == 2

\* The bits given to insert(pos, first, last).
BVPattern == <<TRUE, TRUE, TRUE, TRUE, TRUE, TRUE, TRUE, FALSE, TRUE>>

\* The object the size-changing member functions are called on; the other
\* object is constructed, filled from BVPattern, copied, moved, assigned
\* and destroyed.
Modified == {1}

\* What an uninitialized byte of arr_ may hold.
JunkBytes == {0, 255}

\* The compact encoding of a bit length below 2^14.
LenPrefix(bits) == encodeCompact(NatToDigits(bits)).bytes

\* Encoded vectors given to decode: a bit length, full bytes of ones, and a
\* last byte with or without bits beyond the length; some one byte short,
\* one with a byte to spare, one with a redundant length.
BVWires ==
    {LenPrefix(n) \o [i \in 1..(CeilBytes(n) - 1) |-> 255] \o <<last>> :
         n \in {1, 5, 8, 9, InlineBits + 1}, last \in {0, 1, 31, 32, 128, 255}}
        \cup {LenPrefix(n) \o [i \in 1..(CeilBytes(n) - 1) |-> 255] :
                  n \in {0, 5, 9}}
        \cup {<<20, 31, 0>>, <<21, 0, 31>>}

\* Vectors the machine starts from: an empty one; one grown to ten set bits
\* and cut back to seven, whose second byte still holds the two cut bits;
\* one grown past the inline capacity.
BVStart ==
    {BVResult(BitVector_default, {}, FALSE, "none"),
     BitVector_resize(BitVector_resize_value(BitVector_default, {}, 10, TRUE).b,
                      {}, 7),
     BitVector_resize_value(BitVector_default, {}, InlineBits + 1, TRUE)}

NoBVCall == [op |-> "none", obj |-> 0, src |-> 0, req |-> -1]

\* Object 1 default-constructed, object 2 not yet constructed.
IdleBV ==
    /\ bv = [o \in Objs |-> IF o = 1 THEN BitVector_default ELSE NoObject]
    /\ bv_heap = {}
    /\ bv_pc = "ready"
    /\ bv_n = 0
    /\ bv_call = NoBVCall
    /\ bv_prev = bv
    /\ bv_err = "none"
    /\ bv_ub = FALSE
    /\ bv_wire = <<>>

--------------------------------------------------------------------------
(* The SmallBitVector machine: one vector, every public operation.         *)

MaxArg == 7
MaxColl == 6
MaxInsert == 2

Args == 0..MaxArg

\* Collections of booleans of n elements: constant and alternating ones.
Patterns(n) ==
    {[i \in 1..n |-> v] : v \in BOOLEAN} \cup {[i \in 1..n |-> (i % 2 = 1)]}

Colls(maxlen) == UNION {Patterns(n) : n \in 0..maxlen}

\* Packed words of vectors whose length is within the capacity:
\* empty, length 3 with bits 101, and full.
RawWords == {0, 3 * Pow2(data_bits) + 5, data_bits * Pow2(data_bits) + data_mask}

\* Byte strings offered to decode: a one-byte compact length, then data.
Wires ==
    {<<n * 4>> \o d : n \in 0..(2 * CHAR_BIT),
                      d \in {<<>>, <<21>>, <<255>>, <<255, 255>>}}

Call(op, n, value, coll) == [op |-> op, n |-> n, value |-> value, coll |-> coll]

NoCall == Call("init", 0, FALSE, <<>>)

IdleSBV ==
    /\ sv = 0 /\ sv_pc = "ready" /\ sv_prev = 0 /\ sv_call = NoCall
    /\ sv_err = "none" /\ sv_ret = FALSE
    /\ sv_other = 0 /\ sv_wire = <<>> /\ sv_src = -1

\* A call that changes (or throws on) the vector and returns nothing.
Apply(call, r) ==
    /\ sv_pc = "ready"
    /\ sv_pc' = "returned"
    /\ sv_prev' = sv
    /\ sv' = r.v
    /\ sv_err' = r.err
    /\ sv_call' = call
    /\ UNCHANGED <<sv_ret, sv_other, sv_wire, sv_src>>
    /\ UNCHANGED otherSV

\* A call that reads the vector.
Read(call, err, ret) ==
    /\ sv_pc = "ready"
    /\ sv_pc' = "returned"
    /\ sv_prev' = sv
    /\ sv_call' = call
    /\ sv_err' = err
    /\ sv_ret' = ret
    /\ UNCHANGED <<sv, sv_other, sv_wire, sv_src>>
    /\ UNCHANGED otherSV

\* The caller takes the result of the last call and goes on.
SV_Return ==
    /\ sv_pc = "returned"
    /\ sv_pc' = "ready"
    /\ sv_prev' = 0
    /\ sv_call' = NoCall
    /\ sv_err' = "none"
    /\ sv_ret' = FALSE
    /\ sv_other' = 0
    /\ sv_wire' = <<>>
    /\ sv_src' = -1
    /\ UNCHANGED sv
    /\ UNCHANGED otherSV

\* explicit SmallBitVector(I bits)
SV_FromBits ==
    \E x \in RawWords : Apply(Call("from_bits", x, FALSE, <<>>), Ok(x))

SV_FromCollection ==
    \E c \in Colls(MaxColl) :
        Apply(Call("from_collection", Len(c), FALSE, c), SBV_from_collection(sv, c))

SV_Clear == Apply(Call("clear", 0, FALSE, <<>>), SBV_clear(sv))

SV_Reserve ==
    \E n \in Args : Apply(Call("reserve", n, FALSE, <<>>), SBV_reserve(sv, n))

SV_Resize ==
    \E n \in Args : Apply(Call("resize", n, FALSE, <<>>), SBV_resize(sv, n))

SV_ResizeValue ==
    \E n \in Args, b \in BOOLEAN :
        Apply(Call("resize_value", n, b, <<>>), SBV_resize_value(sv, n, b))

SV_PushBack ==
    \E b \in BOOLEAN : Apply(Call("push_back", 0, b, <<>>), SBV_push_back(sv, b))

SV_PopBack == Apply(Call("pop_back", 0, FALSE, <<>>), SBV_pop_back(sv))

SV_Insert ==
    \E n \in Args, b \in BOOLEAN :
        Apply(Call("insert", n, b, <<>>), SBV_insert(sv, n, b))

SV_InsertCount ==
    \E n \in Args, k \in 0..MaxInsert, b \in BOOLEAN :
        Apply(Call("insert_count", n, b, [i \in 1..k |-> b]),
              SBV_insert_count(sv, n, k, b))

SV_InsertRange ==
    \E n \in Args, c \in Colls(MaxInsert) :
        Apply(Call("insert_range", n, FALSE, c), SBV_insert_range(sv, n, c))

SV_Erase ==
    \E n \in Args : Apply(Call("erase", n, FALSE, <<>>), SBV_erase(sv, n))

SV_Assign ==
    \E n \in Args, b \in BOOLEAN :
        Apply(Call("assign", n, b, <<>>), SBV_assign(sv, n, b))

\* v[n] = b through the proxy reference
SV_SetBit ==
    \E n \in Args, b \in BOOLEAN :
        Apply(Call("set_bit", n, b, <<>>), SBV_BitReference_assign(sv, n, b))

SV_At ==
    \E n \in Args :
        Read(Call("at", n, FALSE, <<>>), SBV_at(sv, n).err, SBV_at(sv, n).ret)

SV_Get ==
    \E n \in Args : Read(Call("get", n, FALSE, <<>>), "none", SBV_get(sv, n))

SV_Swap ==
    \E o \in RawWords :
        /\ sv_pc = "ready"
        /\ sv_pc' = "returned"
        /\ sv_prev' = sv
        /\ sv' = o
        /\ sv_other' = sv
        /\ sv_call' = Call("swap", o, FALSE, <<>>)
        /\ sv_err' = "none"
        /\ UNCHANGED <<sv_ret, sv_wire, sv_src>>
        /\ UNCHANGED otherSV

SV_Encode ==
    /\ sv_pc = "ready"
    /\ sv_pc' = "returned"
    /\ sv_prev' = sv
    /\ sv_wire' = SBV_encode(sv)
    /\ sv_src' = sv
    /\ sv_call' = Call("encode", 0, FALSE, <<>>)
    /\ sv_err' = "none"
    /\ UNCHANGED <<sv, sv_ret, sv_other>>
    /\ UNCHANGED otherSV

\* decode, into a default-constructed vector, of the bytes encode just wrote
SV_DecodeEncoded ==
    /\ sv_pc = "returned"
    /\ sv_call.op = "encode"
    /\ LET r == SBV_decode(0, sv_wire)
       IN  /\ sv' = r.v
           /\ sv_err' = r.err
    /\ sv_prev' = 0
    /\ sv_call' = Call("decode_encoded", 0, FALSE, <<>>)
    /\ UNCHANGED <<sv_pc, sv_ret, sv_other, sv_wire, sv_src>>
    /\ UNCHANGED otherSV

\* decode of arbitrary bytes into the vector
SV_Decode ==
    \E w \in Wires :
        LET r == SBV_decode(sv, w)
        IN  /\ sv_pc = "ready"
            /\ sv_pc' = "returned"
            /\ sv_prev' = sv
            /\ sv' = r.v
            /\ sv_err' = r.err
            /\ sv_call' = Call("decode", DigitsToNat(decodeCompact(w).value),
                               FALSE, <<>>)
            /\ sv_wire' = w
            /\ UNCHANGED <<sv_ret, sv_other, sv_src>>
            /\ UNCHANGED otherSV

--------------------------------------------------------------------------
(* The idle states of the byte source, the byte sinks and the codec calls. *)

NoFBCall == [op |-> "none", amount |-> <<>>, from |-> 0]

NoFBRet == [err |-> "none", ok |-> FALSE, bytes |-> <<>>,
            outside |-> FALSE, ub |-> FALSE]

\* A source over an empty input, nothing called.
IdleSource ==
    /\ fb_in = <<>> /\ fb_it = 0 /\ fb_pc = "ready"
    /\ fb_call = NoFBCall /\ fb_ret = NoFBRet

NoSinkCall ==
    [op |-> "none", arg |-> <<>>, err |-> "none", out |-> <<>>, count |-> 0]

\* Sinks just made over an empty container, nothing called.
IdleSink ==
    /\ to_out = <<>> /\ to_start = <<>> /\ fc_count = 0 /\ sk_bytes = <<>>
    /\ sk_pc = "ready" /\ sk_call = NoSinkCall

NoCodecCall == [op |-> "none"]

IdleCodec == cd_pc = "ready" /\ cd_call = NoCodecCall /\ cd_ret = NoCodecCall

NoDecode == [pc |-> "idle"]

IdleDecode == dl = NoDecode

--------------------------------------------------------------------------
(* The compact codec machine: encode a magnitude, decode a byte string.    *)

MaxMagLen == 5
MaxWireTail == 5

DigitChoices == {0, 1, 63, 64, 255}

RECURSIVE SeqsOfLen(_, _)
SeqsOfLen(S, n) ==
    IF n = 0 THEN {<<>>} ELSE {<<x>> \o q : x \in S, q \in SeqsOfLen(S, n - 1)}

SeqsUpTo(S, n) == UNION {SeqsOfLen(S, k) : k \in 0..n}

\* Canonical magnitudes: short ones over DigitChoices, and long ones around
\* the largest encodable magnitude, 2^536 - 1.
Mags ==
    {Canon(d) : d \in SeqsUpTo(DigitChoices, MaxMagLen)}
        \cup {[i \in 1..n |-> x] : n \in (kMaxCompactBytes - 1)..(kMaxCompactBytes + 1),
                                   x \in {1, 255}}

Headers == {0, 4, 252, 1, 129, 253, 2, 254, 3, 7, 255}

TailBytes == {0, 32, 64, 255}

CompactWires ==
    {<<>>}
        \cup {<<h>> \o t : h \in Headers, t \in SeqsUpTo(TailBytes, MaxWireTail)}
        \cup {<<255>> \o [i \in 1..kMaxCompactBytes |-> x] : x \in {0, 255}}

IdleCompact ==
    /\ ci_in = <<>> /\ ci_bytes = <<>>
    /\ ci_enc = [err |-> "none", bytes |-> <<>>]
    /\ ci_dec = [err |-> "none", value |-> <<>>, used |-> 0]
    /\ ci_pc = "idle"

CI_Encode ==
    /\ ci_pc = "idle"
    /\ \E m \in Mags :
        /\ ci_pc' = "encoded"
        /\ ci_in' = m
        /\ ci_enc' = encodeCompact(m)
        /\ UNCHANGED <<ci_bytes, ci_dec>>
        /\ UNCHANGED otherCI

CI_Decode ==
    /\ ci_pc = "idle"
    /\ \E w \in CompactWires :
        /\ ci_pc' = "decoded"
        /\ ci_bytes' = w
        /\ ci_dec' = decodeCompact(w)
        /\ UNCHANGED <<ci_in, ci_enc>>
        /\ UNCHANGED otherCI

\* decode of the bytes encode just wrote
CI_DecodeEncoded ==
    /\ ci_pc = "encoded"
    /\ ci_enc.err = "none"
    /\ ci_pc' = "roundtrip"
    /\ ci_bytes' = ci_enc.bytes
    /\ ci_dec' = decodeCompact(ci_enc.bytes)
    /\ UNCHANGED <<ci_in, ci_enc>>
    /\ UNCHANGED otherCI

CI_Return ==
    /\ ci_pc # "idle"
    /\ ci_pc' = "idle"
    /\ ci_in' = <<>>
    /\ ci_bytes' = <<>>
    /\ ci_enc' = [err |-> "none", bytes |-> <<>>]
    /\ ci_dec' = [err |-> "none", value |-> <<>>, used |-> 0]
    /\ UNCHANGED otherCI

InitCompact ==
    IdleSBV /\ IdleCompact /\ IdleAppend /\ IdleBV /\ IdleSource /\ IdleSink /\ IdleCodec /\ IdleDecode

NextCompact == CI_Encode \/ CI_Decode \/ CI_DecodeEncoded \/ CI_Return

SpecCompact == InitCompact /\ [][NextCompact]_vars

--------------------------------------------------------------------------
(* Compact codec properties.                                               *)

Encoded == ci_pc \in {"encoded", "roundtrip"}

\* The value of the little-endian bytes b (at most three of them).
LE(b) == DigitsToNat(b)

\* C3: for every magnitude up to 2^536-1 the encoder succeeds and writes the
\* form of the smallest tier that holds it: one byte 4m up to 63, two
\* little-endian bytes of 4m+1 up to 16383, four little-endian bytes of 4m+2
\* up to 2^30-1, otherwise the header (N-4)*4+3 and the N minimal
\* little-endian bytes of m.
C3_MinimalTier ==
    (Encoded /\ Len(ci_in) <= kMaxCompactBytes) =>
        LET m == ci_in
            b == ci_enc.bytes
        IN  /\ ci_enc.err = "none"
            /\ IF Len(m) <= 1 /\ LE(m) <= 63 THEN
                   b = <<LE(m) * 4>>
               ELSE IF Len(m) <= 2 /\ LE(m) <= 16383 THEN
                   Len(b) = 2 /\ LE(b) = LE(m) * 4 + 1
               ELSE IF Len(m) <= 3 \/ (Len(m) = 4 /\ m[4] <= 63) THEN
                   /\ Len(b) = 4
                   /\ b[1] % 4 = 2
                   /\ Canon(Shr2(b)) = m
               ELSE
                   /\ Len(b) = 1 + Len(m)
                   /\ b[1] = (Len(m) - 4) * 4 + 3
                   /\ SubSeq(b, 2, Len(b)) = m
                   /\ m[Len(m)] # 0

\* The encoder has produced each of the four forms, the boundary magnitudes
\* 2^30 (03 00 00 00 40) and 2^536-1 among them.
C3_Witness ==
    /\ Encoded
    /\ ci_in = <<0, 0, 0, 64>>
    /\ ci_enc = [err |-> "none", bytes |-> <<3, 0, 0, 0, 64>>]

\* A wire whose leading compact integer is complete but not minimal for the
\* magnitude it carries.
NonMinimal(w) ==
    /\ Len(w) >= 1
    /\ LET flag == w[1] % 4
           n == (w[1] \div 4) + 4
       IN  CASE flag = 0 -> FALSE
             [] flag = 1 -> Len(w) >= 2 /\ (w[1] + 256 * w[2]) \div 4 < 64
             [] flag = 2 ->
                    /\ Len(w) >= 4
                    /\ w[4] = 0
                    /\ (w[1] + 256 * w[2] + 65536 * w[3]) \div 4 < 16384
             [] OTHER ->
                    /\ Len(w) >= 1 + n
                    /\ \/ w[1 + n] = 0
                       \/ n = 4 /\ w[5] < 64

\* C4: decoding a complete but non-minimal compact encoding (a two-byte form
\* below 64, a four-byte form below 16384, a multi-byte form below 2^30 or
\* with a zero most significant byte) fails with REDUNDANT_COMPACT_ENCODING
\* and yields no value.
C4_RejectsRedundant ==
    (ci_pc = "decoded" /\ NonMinimal(ci_bytes)) =>
        ci_dec = DecodeFail("REDUNDANT_COMPACT_ENCODING")

\* The decoder has rejected a multi-byte form whose top payload byte is zero.
C4_Witness ==
    /\ ci_pc = "decoded"
    /\ ci_bytes = <<7, 0, 0, 0, 64, 0>>
    /\ NonMinimal(ci_bytes)
    /\ ci_dec.err = "REDUNDANT_COMPACT_ENCODING"

--------------------------------------------------------------------------
(* The append machine: a buffer holding an encoded vector of opaque blobs, *)
(* appended to a bounded number of times.                                  *)

MaxAppends == 3

\* Element counts around each change of prefix width, and one past uint32_t.
StartCounts ==
    {NatToDigits(n) : n \in {0, 1, 61, 62, 63, 16381, 16382, 16383}}
        \cup {<<253, 255, 255, 63>>, <<254, 255, 255, 63>>, <<255, 255, 255, 63>>,
              <<253, 255, 255, 255>>, <<254, 255, 255, 255>>, <<0, 0, 0, 0, 1>>}

\* Element bytes already in the buffer (opaque blobs may be empty).
StartData == {<<>>, <<7>>, <<7, 8>>}

Blobs == {<<>>, <<1>>, <<2, 3>>}

DeadReads == {"kept", "trap"}

InitAppend ==
    /\ IdleSBV /\ IdleCompact /\ IdleBV /\ IdleSource /\ IdleSink /\ IdleCodec /\ IdleDecode
    /\ ap_err = "none" /\ ap_n = 0
    /\ \/ ap_buf = <<>> /\ ap_count = <<>> /\ ap_data = <<>>
       \/ \E c \in StartCounts, d \in StartData :
            /\ c = <<>> => d = <<>>
            /\ ap_count = c
            /\ ap_data = d
            /\ ap_buf = encodeCompact(c).bytes \o d

AP_Append ==
    /\ ap_n < MaxAppends
    /\ \E input \in Blobs, dead \in DeadReads :
        LET r == append_or_new_vec(ap_buf, input, dead)
        IN  /\ ap_buf' = r.buf
            /\ ap_err' = r.err
            /\ ap_n' = ap_n + 1
            /\ ap_count' = IF r.err = "none" THEN Inc(ap_count) ELSE ap_count
            /\ ap_data' = IF r.err = "none" THEN ap_data \o input ELSE ap_data
            /\ UNCHANGED otherAP

NextAppend == AP_Append

SpecAppend == InitAppend /\ [][NextAppend]_vars

\* C2: after every successful append the buffer is byte-for-byte the
\* encoding of the old vector with the blob pushed: the compact encoding of
\* the element count plus one, the old element bytes, then the blob.
C2_AppendIsPushAndReencode ==
    (ap_n > 0 /\ ap_err = "none") =>
        ap_buf = encodeCompact(ap_count).bytes \o ap_data

--------------------------------------------------------------------------
(* The SmallBitVector specification.                                       *)

Init ==
    IdleSBV /\ IdleCompact /\ IdleAppend /\ IdleBV /\ IdleSource /\ IdleSink /\ IdleCodec /\ IdleDecode

Next ==
    \/ SV_FromBits
    \/ SV_FromCollection
    \/ SV_Clear
    \/ SV_Reserve
    \/ SV_Resize
    \/ SV_ResizeValue
    \/ SV_PushBack
    \/ SV_PopBack
    \/ SV_Insert
    \/ SV_InsertCount
    \/ SV_InsertRange
    \/ SV_Erase
    \/ SV_Assign
    \/ SV_SetBit
    \/ SV_At
    \/ SV_Get
    \/ SV_Swap
    \/ SV_Encode
    \/ SV_DecodeEncoded
    \/ SV_Decode
    \/ SV_Return

Spec == Init /\ [][Next]_vars

--------------------------------------------------------------------------
(* Claims about SmallBitVector, checked under Spec.                        *)

\* Same size() and the same bit at every index below size().
SBV_same_bits(a, b) ==
    /\ SBV_size(a) = SBV_size(b)
    /\ \A i \in 0..(all_bits - 1) : i < SBV_size(a) => SBV_get(a, i) = SBV_get(b, i)

\* C1: decoding the bytes encode wrote for a vector whose length is within
\* the capacity succeeds and yields a vector with the same size and the
\* same bit at every index below the size.
C1_RoundTrip ==
    (sv_call.op = "decode_encoded" /\ SBV_size(sv_src) <= SBV_capacity)
        => (sv_err = "none" /\ SBV_same_bits(sv, sv_src))

\* C9: in every reachable state size() is at most capacity().
C9_SizeWithinCapacity == SBV_size(sv) <= SBV_capacity

\* The length the last call asked the vector to take, for the calls that
\* can grow it (reserve: the capacity asked for); -1 for the other calls.
RequestedLength ==
    LET op == sv_call.op
        cur == SBV_size(sv_prev)
    IN  CASE op \in {"push_back", "insert"} -> cur + 1
          [] op \in {"insert_count", "insert_range"} ->
                IF Len(sv_call.coll) = 0 THEN -1 ELSE cur + Len(sv_call.coll)
          [] op \in {"resize", "assign", "reserve"} -> sv_call.n
          [] op = "resize_value" -> IF sv_call.n = cur THEN -1 ELSE sv_call.n
          [] op = "from_collection" -> Len(sv_call.coll)
          [] OTHER -> -1

WouldExceedCapacity == sv_pc = "returned" /\ RequestedLength > SBV_capacity

\* C10 as stated: every operation that would make the length exceed the
\* capacity fails with an overflow error and leaves the vector unchanged.
C10_OverflowError ==
    WouldExceedCapacity => (sv_err = "overflow_error" /\ sv = sv_prev)

\* The exception each operation throws when the capacity would be exceeded.
CapacityError ==
    IF sv_call.op \in {"resize", "resize_value", "assign"} THEN "out_of_range"
    ELSE IF /\ sv_call.op \in {"insert_count", "insert_range"}
            /\ sv_call.n > SBV_size(sv_prev) THEN "out_of_range"
    ELSE "overflow_error"

\* C10 as amended: every operation that would make the length exceed the
\* capacity throws and leaves the vector unchanged; the exception is
\* std::out_of_range for resize and assign (and for an iterator insert whose
\* position is past the end), std::overflow_error for the other operations.
C10_FailsUnchanged ==
    WouldExceedCapacity => (sv_err = CapacityError /\ sv = sv_prev)

C10_Witness ==
    /\ WouldExceedCapacity
    /\ sv_call.op = "resize"
    /\ SBV_size(sv_prev) = 3
    /\ sv_err = "out_of_range"
    /\ sv = sv_prev

\* The last call accessed one element at an index at or beyond size().
IndexAccessOps == {"at", "get", "set_bit", "erase"}

OutOfRangeAccess ==
    /\ sv_pc = "returned"
    /\ sv_call.op \in IndexAccessOps
    /\ sv_call.n >= SBV_size(sv_prev)

\* C11: every access to an element at an index >= size() (at, operator[]
\* for reading, a write through the proxy reference of operator[], erase)
\* fails with an out-of-range error and leaves the packed word, length field
\* included, unchanged.
C11_OutOfRangeAccessFails ==
    OutOfRangeAccess => (sv_err = "out_of_range" /\ sv = sv_prev)

\* operator== of the vector and a vector of the packed word o agrees with
\* comparing the lengths and the bits below the length.
SBV_EqualityByBits ==
    \A o \in RawWords : SBV_equal(sv, o) <=> SBV_same_bits(sv, o)

--------------------------------------------------------------------------
(* The calls of the BitVector machine.                                     *)

\* A call has run: the objects and heap after it, and the record of it.
BVStep(op, o, src, req, new_bv, new_heap, ub, err, wire) ==
    /\ bv_pc' = "returned"
    /\ bv_n' = bv_n + 1
    /\ bv_prev' = bv
    /\ bv' = new_bv
    /\ bv_heap' = new_heap
    /\ bv_call' = [op |-> op, obj |-> o, src |-> src, req |-> req]
    /\ bv_err' = err
    /\ bv_ub' = ub
    /\ bv_wire' = wire
    /\ UNCHANGED otherBV

BVReady == bv_pc = "ready" /\ bv_n < MaxOps

\* A member function of object o has run with result r.
BVModify(op, o, req, r) ==
    BVStep(op, o, 0, req, [bv EXCEPT ![o] = r.b], r.h, r.ub, r.err, <<>>)

BV_Return ==
    /\ bv_pc = "returned"
    /\ bv_pc' = "ready"
    /\ bv_call' = NoBVCall
    /\ bv_prev' = bv
    /\ bv_err' = "none"
    /\ bv_ub' = FALSE
    /\ bv_wire' = <<>>
    /\ UNCHANGED <<bv, bv_heap, bv_n>>
    /\ UNCHANGED otherBV

BV_Construct ==
    /\ BVReady
    /\ \E o \in Objs :
        /\ ~bv[o].alive
        /\ BVStep("construct", o, 0, -1, [bv EXCEPT ![o] = BitVector_default],
                  bv_heap, FALSE, "none", <<>>)

BV_CopyConstruct ==
    /\ BVReady
    /\ \E o \in Objs, s \in Objs, junk \in JunkBytes :
        /\ ~bv[o].alive /\ bv[s].alive
        /\ LET r == BitVector_copy_construct(bv[s], bv_heap, junk)
           IN  BVStep("copy_construct", o, s, -1, [bv EXCEPT ![o] = r.b],
                      r.h, r.ub, r.err, <<>>)

BV_MoveConstruct ==
    /\ BVReady
    /\ \E o \in Objs, s \in Objs :
        /\ ~bv[o].alive /\ bv[s].alive
        /\ LET m == BitVector_move_construct(bv[s], bv_heap)
           IN  BVStep("move_construct", o, s, -1,
                      [bv EXCEPT ![o] = m.b, ![s] = m.other], m.h,
                      FALSE, "none", <<>>)

\* operator=(const BitVector &): destroy, then copy-construct in place.
BV_CopyAssign ==
    /\ BVReady
    /\ \E o \in Objs, s \in Objs, junk \in JunkBytes :
        /\ o # s /\ bv[o].alive /\ bv[s].alive
        /\ LET h1 == BitVector_destroy(bv[o], bv_heap)
               r == BitVector_copy_construct(bv[s], h1, junk)
           IN  BVStep("copy_assign", o, s, -1, [bv EXCEPT ![o] = r.b],
                      r.h, r.ub, r.err, <<>>)

\* operator=(BitVector &&): destroy, then move-construct in place.
BV_MoveAssign ==
    /\ BVReady
    /\ \E o \in Objs, s \in Objs :
        /\ o # s /\ bv[o].alive /\ bv[s].alive
        /\ LET h1 == BitVector_destroy(bv[o], bv_heap)
               m == BitVector_move_construct(bv[s], h1)
           IN  BVStep("move_assign", o, s, -1,
                      [bv EXCEPT ![o] = m.b, ![s] = m.other], m.h,
                      FALSE, "none", <<>>)

BV_Destroy ==
    /\ BVReady
    /\ \E o \in Objs :
        /\ bv[o].alive
        /\ BVStep("destroy", o, 0, -1, [bv EXCEPT ![o] = NoObject],
                  BitVector_destroy(bv[o], bv_heap), FALSE, "none", <<>>)

BV_Resize ==
    /\ BVReady
    /\ \E o \in Modified, n \in BVSizes :
        /\ bv[o].alive
        /\ BVModify("resize", o, n, BitVector_resize(bv[o], bv_heap, n))

BV_ResizeValue ==
    /\ BVReady
    /\ \E o \in Modified, n \in BVFills, value \in BOOLEAN :
        /\ bv[o].alive
        /\ BVModify("resize_value", o, n,
                    BitVector_resize_value(bv[o], bv_heap, n, value))

BV_Clear ==
    /\ BVReady
    /\ \E o \in Modified :
        /\ bv[o].alive
        /\ BVModify("clear", o, 0, BitVector_clear(bv[o], bv_heap))

BV_Reserve ==
    /\ BVReady
    /\ \E o \in Modified, n \in BVReserves :
        /\ bv[o].alive
        /\ BVModify("reserve", o, n, BitVector_reserve(bv[o], bv_heap, n))

BV_PushBack ==
    /\ BVReady
    /\ \E o \in Modified, value \in BOOLEAN :
        /\ bv[o].alive
        /\ BVModify("push_back", o, bv[o].size + 1,
                    BitVector_push_back(bv[o], bv_heap, value))

\* insert(index, value) at the front, and past the end (out of range).
BV_Insert ==
    /\ BVReady
    /\ \E o \in Modified :
        /\ bv[o].alive
        /\ \E a \in {<<0, TRUE>>, <<0, FALSE>>, <<bv[o].size + 1, TRUE>>} :
            BVModify("insert", o, bv[o].size + 1,
                     BitVector_insert(bv[o], bv_heap, a[1], a[2]))

\* insert(pos, count, value) at the front, of nothing, and past the end.
BV_InsertCount ==
    /\ BVReady
    /\ \E o \in Modified :
        /\ bv[o].alive
        /\ \E a \in {<<0, MaxCount, TRUE>>, <<0, MaxCount, FALSE>>, <<0, 0, TRUE>>,
                      <<bv[o].size + 1, MaxCount, TRUE>>} :
            BVModify("insert", o, bv[o].size + a[2],
                     BitVector_insert_count(bv[o], bv_heap, a[1], a[2], a[3]))

\* insert(pos, first, last), on either object.
BV_InsertRange ==
    /\ BVReady
    /\ \E o \in Objs :
        /\ bv[o].alive
        /\ \E a \in {<<0, BVPattern>>, <<0, <<>> >>, <<bv[o].size + 1, BVPattern>>} :
            BVModify("insert", o, bv[o].size + Len(a[2]),
                     BitVector_insert_range(bv[o], bv_heap, a[1], a[2]))

BV_Assign ==
    /\ BVReady
    /\ \E o \in Modified, value \in BOOLEAN :
        /\ bv[o].alive
        /\ BVModify("assign", o, MaxCount,
                    BitVector_assign(bv[o], bv_heap, MaxCount, value))

\* encode reads the object; the bytes it put are kept until the return.
BV_Encode ==
    /\ bv_pc = "ready"
    /\ \E o \in Objs :
        /\ bv[o].alive
        /\ LET e == BitVector_encode(bv[o])
           IN  /\ bv_pc' = "returned"
               /\ bv_prev' = bv
               /\ bv_call' = [op |-> "encode", obj |-> o, src |-> 0, req |-> -1]
               /\ bv_err' = "none"
               /\ bv_ub' = e.ub
               /\ bv_wire' = e.bytes
               /\ UNCHANGED <<bv, bv_heap, bv_n>>
               /\ UNCHANGED otherBV

\* decode; req is the bit length read when the vector was resized to it.
BV_Decode ==
    /\ BVReady
    /\ \E o \in Modified, wire \in BVWires :
        /\ bv[o].alive
        /\ LET r == BitVector_decode(bv[o], bv_heap, wire)
               resized == r.err \in {"none", "UNUSED_BITS_ARE_SET"}
           IN  BVStep("decode", o, 0, IF resized THEN r.b.size ELSE -1,
                      [bv EXCEPT ![o] = r.b], r.h, r.ub, r.err, wire)

\* Lengths of the boolean containers given to the constructors.
ConstructLens == {0, 3, CHAR_BIT, InlineBits, InlineBits + 1}

\* BitVector(init_list) and BitVector(container) in storage that holds junk.
BV_ConstructFrom ==
    /\ BVReady
    /\ \E o \in Objs, n \in ConstructLens, junk \in Uninitialized :
        /\ ~bv[o].alive
        /\ LET r == BitVector_construct_from(BoolsOf(n), bv_heap, junk)
           IN  BVStep("construct_from", o, 0, n, [bv EXCEPT ![o] = r.b],
                      r.h, r.ub, r.err, <<>>)

InitBV ==
    /\ IdleSBV /\ IdleCompact /\ IdleAppend /\ IdleSource /\ IdleSink /\ IdleCodec /\ IdleDecode
    /\ \E first \in BVStart, second \in {NoObject, BitVector_default} :
        /\ bv = [o \in Objs |-> IF o = 1 THEN first.b ELSE second]
        /\ bv_heap = first.h
    /\ bv_pc = "ready"
    /\ bv_n = 0
    /\ bv_call = NoBVCall
    /\ bv_prev = bv
    /\ bv_err = "none"
    /\ bv_ub = FALSE
    /\ bv_wire = <<>>

NextBV ==
    \/ BV_Construct \/ BV_CopyConstruct \/ BV_MoveConstruct
    \/ BV_CopyAssign \/ BV_MoveAssign \/ BV_Destroy
    \/ BV_Resize \/ BV_ResizeValue \/ BV_Clear \/ BV_Reserve
    \/ BV_PushBack \/ BV_Insert \/ BV_InsertCount \/ BV_InsertRange
    \/ BV_Assign \/ BV_Encode \/ BV_Return

SpecBV == InitBV /\ [][NextBV]_vars

\* The decoding machine: one vector, decoded into from its current state.
NextBVDecode ==
    \/ BV_Decode \/ BV_Resize \/ BV_Reserve \/ BV_Clear \/ BV_Encode \/ BV_Return

SpecBVDecode == InitBV /\ [][NextBVDecode]_vars

\* The constructing machine: vectors built from booleans, read and destroyed.
NextBVConstruct ==
    \/ BV_ConstructFrom \/ BV_Destroy \/ BV_Encode \/ BV_Return

SpecBVConstruct == InitBV /\ [][NextBVConstruct]_vars

\* Encoded vectors whose bits are all set: within one byte, within two,
\* past the inline capacity.
AcceptedWires ==
    {LenPrefix(n) \o [i \in 1..(CeilBytes(n) - 1) |-> 255]
         \o <<Pow2(n % CHAR_BIT) - 1>> : n \in {5, 9, InlineBits + 1}}

\* decode of bytes the decoder accepts.
BV_DecodeAccepted ==
    /\ BVReady
    /\ \E o \in Modified, wire \in AcceptedWires :
        /\ bv[o].alive
        /\ LET r == BitVector_decode(bv[o], bv_heap, wire)
           IN  /\ r.err = "none"
               /\ BVStep("decode", o, 0, r.b.size, [bv EXCEPT ![o] = r.b],
                         r.h, r.ub, r.err, wire)

\* The machine without reserve and without failing decodes.
NextBVUnreserved ==
    \/ BV_CopyConstruct \/ BV_MoveConstruct \/ BV_CopyAssign \/ BV_MoveAssign
    \/ BV_Resize \/ BV_ResizeValue \/ BV_Clear
    \/ BV_PushBack \/ BV_Insert \/ BV_InsertCount \/ BV_InsertRange
    \/ BV_Assign \/ BV_DecodeAccepted \/ BV_Return

SpecBVUnreserved == InitBV /\ [][NextBVUnreserved]_vars

--------------------------------------------------------------------------
(* Claims about BitVector.                                                 *)

\* The bit length a wire declares (a one- or two-byte compact integer).
DeclaredBits(w) ==
    IF w[1] % 4 = 0 THEN w[1] \div 4 ELSE (w[1] + 256 * w[2]) \div 4

\* The data bytes of a wire.
DataBytes(w) == SubSeq(w, decodeCompact(w).used + 1, Len(w))

\* The wire given to decode declares a length that is not a multiple of
\* eight and holds every data byte of it.
PartialLastByte(w) ==
    /\ w # <<>>
    /\ decodeCompact(w).err = "none"
    /\ DeclaredBits(w) % CHAR_BIT # 0
    /\ Len(DataBytes(w)) >= CeilBytes(DeclaredBits(w))

\* C5: decoding a vector whose declared length L is not a multiple of 8,
\* all its data bytes present, fails with UNUSED_BITS_ARE_SET exactly when
\* the last data byte has a bit set at a position >= L mod 8.
C5_UnusedBitsRejected ==
    (bv_call.op = "decode" /\ PartialLastByte(bv_wire)) =>
        LET L == DeclaredBits(bv_wire)
            last == DataBytes(bv_wire)[CeilBytes(L)]
        IN  (bv_err = "UNUSED_BITS_ARE_SET")
                <=> (\E j \in (L % CHAR_BIT)..(CHAR_BIT - 1) : BitAt(last, j) = 1)

\* decode has rejected a five-bit vector whose last byte has bit 5 set.
C5_Witness ==
    /\ bv_call.op = "decode"
    /\ bv_wire = <<20, 32>>
    /\ PartialLastByte(bv_wire)
    /\ bv_err = "UNUSED_BITS_ARE_SET"

\* The last call took object o from inline to heap mode.
SwitchedToHeap(o) ==
    /\ bv_prev[o].alive /\ bv[o].alive
    /\ bv_prev[o].sbf = 1 /\ bv[o].sbf = 0

\* The last call took object o from heap back to inline mode.
SwitchedToInline(o) ==
    /\ bv_prev[o].alive /\ bv[o].alive
    /\ bv_prev[o].sbf = 0 /\ bv[o].sbf = 1

\* The last call was a size-changing member function of o that asked for
\* more bits than the inline array holds.
AskedBeyondInline(o) ==
    /\ bv_call.obj = o
    /\ bv_call.op \in {"resize", "resize_value", "reserve", "push_back",
                       "insert", "assign", "decode"}
    /\ bv_call.req > InlineBits

\* The statement as first made: the only mode change is inline to heap, on
\* a request beyond the inline capacity, and heap mode is never left.
C6_NeverBackToInline ==
    \A o \in Objs :
        /\ SwitchedToHeap(o) => AskedBeyondInline(o)
        /\ ~SwitchedToInline(o)

\* C6: a size-changing member function switches an object from inline to
\* heap mode only when asked for more bits than the inline capacity and
\* never switches it back; the other mode changes are those of assignment
\* (the target takes the mode a copy of the source has) and of moving from
\* an object (the source is reset to an empty inline vector).
C6_ModeChanges ==
    \A o \in Objs :
        /\ SwitchedToHeap(o) =>
              \/ AskedBeyondInline(o)
              \/ /\ bv_call.obj = o
                 /\ bv_call.op \in {"copy_assign", "move_assign"}
                 /\ bv_prev[bv_call.src].sbf = 0
        /\ SwitchedToInline(o) =>
              \/ bv_call.obj = o /\ bv_call.op \in {"copy_assign", "move_assign"}
              \/ bv_call.src = o /\ bv_call.op \in {"move_construct", "move_assign"}

\* A resize past the inline capacity has switched object 1 to heap mode.
C6_Witness ==
    /\ bv_call.op = "resize"
    /\ SwitchedToHeap(1)
    /\ AskedBeyondInline(1)

\* C7: an inline vector and a heap vector holding the same logical bits
\* encode to the same bytes.
C7_SameEncoding ==
    \A a \in Objs, b \in Objs :
        (/\ bv[a].alive /\ bv[b].alive
         /\ bv[a].sbf = 1 /\ bv[b].sbf = 0
         /\ BitVector_bits(bv[a]) = BitVector_bits(bv[b]))
            => BitVector_encode(bv[a]).bytes = BitVector_encode(bv[b]).bytes

\* No heap buffer has two owners and every owned buffer is allocated.
SoleOwnership ==
    /\ \A a \in Objs, b \in Objs :
          (a # b /\ bv[a].alive /\ bv[b].alive /\ bv[a].sbf = 0 /\ bv[b].sbf = 0)
              => bv[a].buf # bv[b].buf
    /\ \A o \in Objs : (bv[o].alive /\ bv[o].sbf = 0) => bv[o].buf \in bv_heap

\* C8: a copy (construction or assignment) equals its source, leaves the
\* source as it was and stays inside the new object's storage; a move
\* yields the source's previous value and leaves the source an empty inline
\* vector; at all times no heap buffer has two owners and no object holds
\* a freed buffer.
C8_CopyMoveOwnership ==
    /\ SoleOwnership
    /\ bv_call.op \in {"copy_construct", "copy_assign"} =>
          /\ BitVector_equal(bv[bv_call.obj], bv_prev[bv_call.src])
          /\ bv[bv_call.src] = bv_prev[bv_call.src]
          /\ ~bv_ub
    /\ bv_call.op \in {"move_construct", "move_assign"} =>
          /\ BitVector_equal(bv[bv_call.obj], bv_prev[bv_call.src])
          /\ bv[bv_call.obj].sbf = bv_prev[bv_call.src].sbf
          /\ bv[bv_call.src].alive
          /\ bv[bv_call.src].size = 0
          /\ bv[bv_call.src].sbf = 1

\* A heap vector has been copy-assigned over another heap vector.
C8_Witness ==
    /\ bv_call.op = "copy_assign"
    /\ bv_prev[bv_call.obj].sbf = 0
    /\ bv[bv_call.obj].sbf = 0
    /\ bv[bv_call.src].sbf = 0
    /\ bv[bv_call.obj].buf # bv[bv_call.src].buf
    /\ BitVector_equal(bv[bv_call.obj], bv[bv_call.src])

\* operator== of two BitVector objects agrees with comparing the lengths
\* and the bits below the length.
BitVector_EqualityByBits ==
    \A a \in Objs, b \in Objs :
        (bv[a].alive /\ bv[b].alive) =>
            (BitVector_equal(bv[a], bv[b])
                 <=> BitVector_bits(bv[a]) = BitVector_bits(bv[b]))

\* C12: for both bit-vector types, a == b holds exactly when a and b have
\* the same length and the same bit at every index below the length; bits
\* of the storage beyond the length and the storage mode do not matter.
C12_EqualByLengthAndBits == SBV_EqualityByBits /\ BitVector_EqualityByBits

\* C13: resize(n) with n > size() leaves the bits below the old size
\* unchanged and makes every bit in [old size, n) read false, also when the
\* call switches the storage from inline to heap; resize(n) with
\* n < size() keeps exactly the first n bits.
C13_ResizeZeroFills ==
    (bv_pc = "returned" /\ bv_call.op = "resize") =>
        LET old == bv_prev[bv_call.obj]
            new == bv[bv_call.obj]
            n == bv_call.req
        IN  /\ new.size = n
            /\ \A i \in 0..(n - 1) :
                   GetBit(new.data, i) =
                       (IF i < old.size THEN GetBit(old.data, i) ELSE FALSE)


\* The storage mode of a live object is one the class defines.
WellDefinedMode(b) ==
    /\ b.sbf = 1 => Len(b.data) = arr_size
    /\ b.size <= InlineBits => b.sbf = 1

\* C25: a BitVector constructed from an initializer list or a container of
\* n booleans has size n, is in a well-defined storage mode (inline when n
\* fits the inline capacity), was built without touching memory outside its
\* storage, and its bit at every index below n is the input's.
C25_ConstructedFromBooleans ==
    (bv_pc = "returned" /\ bv_call.op = "construct_from") =>
        LET b == bv[bv_call.obj]
            n == bv_call.req
        IN  /\ ~bv_ub
            /\ b.size = n
            /\ WellDefinedMode(b)
            /\ BitVector_bits(b) = BoolsOf(n)

\* What the constructors do give: the size asked for, always.
ConstructedSize ==
    (bv_pc = "returned" /\ bv_call.op = "construct_from") =>
        bv[bv_call.obj].size = bv_call.req


\* The member functions that change the size of a vector.
SizeChanging == {"resize", "resize_value", "push_back", "insert", "assign", "clear", "decode"}

\* C27: in every state of a BitVector reachable from an empty vector, each
\* byte that resize, push_back, insert, assign, clear or decode reads or
\* writes lies inside the active storage: below the inline array size in
\* inline mode, below the heap buffer size in heap mode.
C27_AccessInsideStorage ==
    (bv_pc = "returned" /\ bv_call.op \in SizeChanging) => ~bv_ub

\* Where the calls do stay inside the storage: a resize that neither keeps
\* the size nor asks for a whole number of bytes at the end of the storage.
ResizeInsideStorage ==
    (bv_pc = "returned" /\ bv_call.op \in {"resize", "clear"}
         /\ bv_call.req \div CHAR_BIT < Len(bv[bv_call.obj].data)) => ~bv_ub


\* The bits of the last data byte of b at positions size() mod 8 and above.
UnusedBits(b) ==
    LET byte_size == CeilBytes(b.size)
    IN  IF b.size % CHAR_BIT # 0 /\ byte_size <= Len(b.data)
        THEN BitAnd(b.data[byte_size], 255 * Pow2(b.size % CHAR_BIT)) % 256
        ELSE 0

\* C28: in every state of a BitVector reachable from an empty vector by
\* push_back, insert, resize, assign, clear, copy and move, the bits of the
\* last data byte at positions size() mod 8 and above are zero, so the
\* decoder accepts the bytes encode writes.
C28_UnusedBitsZero ==
    \A o \in Objs :
        bv[o].alive =>
            /\ UnusedBits(bv[o]) = 0
            /\ BitVector_decode(BitVector_default, {},
                                BitVector_encode(bv[o]).bytes).err = "none"

\* A heap vector has been cut to a length inside a byte whose next bit was
\* set.
C28_Witness ==
    /\ bv_pc = "returned" /\ bv_call.op = "resize"
    /\ bv_call.req % CHAR_BIT # 0
    /\ bv_prev[bv_call.obj].size > bv_call.req
    /\ GetBit(bv_prev[bv_call.obj].data, bv_call.req)
    /\ bv[bv_call.obj].sbf = 0
    /\ bv[bv_call.obj].size = bv_call.req

--------------------------------------------------------------------------
(* FromBytes<std::span<const uint8_t>> (backend/from_bytes.hpp): the view  *)
(* in_ and the read position it_, an offset into it.  A size_t argument is *)
(* a canonical magnitude of at most sizeof_size_t digits, so that the      *)
(* conversion to std::ptrdiff_t is the one of a 64-bit build.              *)

sizeof_size_t == 8

SIZE_MAX == [i \in 1..sizeof_size_t |-> 255]

\* The magnitude of a small natural number as a size_t.
SizeT(n) == NatToDigits(n)

\* static_cast<std::ptrdiff_t>(amount) is negative.
ptrdiff_negative(amount) ==
    Len(amount) = sizeof_size_t /\ amount[sizeof_size_t] >= 128

\* 2^64 - amount, the magnitude of a negative static_cast<ptrdiff_t>(amount).
ptrdiff_magnitude(amount) ==
    Canon(SubSeq(Inc([i \in 1..sizeof_size_t |-> 255 - amount[i]]),
                 1, sizeof_size_t))

\* A magnitude small enough to be compared as a number of the model: every
\* distance inside an input is far below 2^24.
Small(d) == Len(d) <= 3

\* amount <= n for a size_t amount and a small natural n.
SizeAtMost(amount, n) == Small(amount) /\ DigitsToNat(amount) <= n

\* has(amount): std::distance(it_, in_.end()) >= ptrdiff_t(amount); a
\* negative ptrdiff_t(amount) is at most -1.
FromBytes_has(in, it, amount) ==
    IF ptrdiff_negative(amount) THEN Len(in) - it >= -1
    ELSE SizeAtMost(amount, Len(in) - it)

\* std::advance(it_, amount): the new offset, or ub when the iterator
\* leaves the range [begin, end].
FromBytes_advance(in, it, amount) ==
    IF ptrdiff_negative(amount) THEN
        LET back == ptrdiff_magnitude(amount)
        IN  IF SizeAtMost(back, it)
            THEN [it |-> it - DigitsToNat(back), ub |-> FALSE]
            ELSE [it |-> it, ub |-> TRUE]
    ELSE IF SizeAtMost(amount, Len(in) - it)
         THEN [it |-> it + DigitsToNat(amount), ub |-> FALSE]
         ELSE [it |-> it, ub |-> TRUE]

FBResult(it, err, ok, bytes, outside, ub) ==
    [it |-> it, err |-> err, ok |-> ok, bytes |-> bytes,
     outside |-> outside, ub |-> ub]

\* The bytes of in at offsets from .. from + amount - 1 that exist.
ViewBytes(in, from, amount) ==
    IF SizeAtMost(amount, Len(in) - from)
    THEN SubSeq(in, from + 1, from + DigitsToNat(amount))
    ELSE SubSeq(in, from + 1, Len(in))

\* take()
FromBytes_take(in, it) ==
    IF ~FromBytes_has(in, it, SizeT(1))
    THEN FBResult(it, "NOT_ENOUGH_DATA", FALSE, <<>>, FALSE, FALSE)
    ELSE FBResult(it + 1, "none", TRUE, <<in[it + 1]>>, FALSE, FALSE)

\* read(size_t amount): the view {in_.data() + start, amount}; outside says
\* that the view returned extends beyond the input.
FromBytes_read(in, it, amount) ==
    IF ~FromBytes_has(in, it, amount)
    THEN FBResult(it, "NOT_ENOUGH_DATA", FALSE, <<>>, FALSE, FALSE)
    ELSE LET a == FromBytes_advance(in, it, amount)
         IN  FBResult(a.it, "none", TRUE, ViewBytes(in, it, amount),
                      ~SizeAtMost(amount, Len(in) - it), a.ub)

\* read(std::span<uint8_t> out) with out.size() = amount
FromBytes_read_into(in, it, amount) ==
    IF ~FromBytes_has(in, it, amount)
    THEN FBResult(it, "NOT_ENOUGH_DATA", FALSE, <<>>, FALSE, FALSE)
    ELSE LET a == FromBytes_advance(in, it, amount)
         IN  FBResult(a.it, "none", TRUE, ViewBytes(in, it, amount),
                      ~SizeAtMost(amount, Len(in) - it), a.ub)

MaxSourceLen == 3

\* Inputs whose bytes are all different: 10, 11, 12, ...
SourceInputs == {[i \in 1..n |-> 9 + i] : n \in 0..MaxSourceLen}

\* Amounts asked of has and read(size_t): from nothing to more than any
\* input holds, 2^63, and the last values of size_t.
HugeAmounts ==
    {[i \in 1..sizeof_size_t |-> IF i = sizeof_size_t THEN 128 ELSE 0],
     SIZE_MAX,
     [i \in 1..sizeof_size_t |-> IF i = 1 THEN 254 ELSE 255]}

SmallAmounts == {SizeT(n) : n \in 0..(MaxSourceLen + 1)}

\* A call has run with result r.
FBStep(op, amount, r) ==
    /\ fb_pc' = "returned"
    /\ fb_call' = [op |-> op, amount |-> amount, from |-> fb_it]
    /\ fb_it' = r.it
    /\ fb_ret' = [err |-> r.err, ok |-> r.ok, bytes |-> r.bytes,
                  outside |-> r.outside, ub |-> r.ub]
    /\ UNCHANGED fb_in
    /\ UNCHANGED otherFB

FB_Has ==
    /\ fb_pc = "ready"
    /\ \E amount \in SmallAmounts \cup HugeAmounts :
        FBStep("has", amount,
               FBResult(fb_it, "none", FromBytes_has(fb_in, fb_it, amount),
                        <<>>, FALSE, FALSE))

FB_Take ==
    /\ fb_pc = "ready"
    /\ FBStep("take", SizeT(1), FromBytes_take(fb_in, fb_it))

FB_Read ==
    /\ fb_pc = "ready"
    /\ \E amount \in SmallAmounts \cup HugeAmounts :
        FBStep("read", amount, FromBytes_read(fb_in, fb_it, amount))

\* read into a buffer the caller owns: its size is that of a real buffer
FB_ReadInto ==
    /\ fb_pc = "ready"
    /\ \E amount \in SmallAmounts :
        FBStep("read_into", amount, FromBytes_read_into(fb_in, fb_it, amount))

\* The caller goes on; after an iterator left the range the position is
\* whatever the build makes of it.
FB_Return ==
    /\ fb_pc = "returned"
    /\ fb_pc' = "ready"
    /\ fb_call' = NoFBCall
    /\ fb_ret' = NoFBRet
    /\ IF fb_ret.ub THEN fb_it' \in 0..Len(fb_in) ELSE fb_it' = fb_it
    /\ UNCHANGED fb_in
    /\ UNCHANGED otherFB

InitSource ==
    /\ IdleSBV /\ IdleCompact /\ IdleAppend /\ IdleBV /\ IdleSink /\ IdleCodec /\ IdleDecode
    /\ fb_in \in SourceInputs
    /\ fb_it = 0 /\ fb_pc = "ready"
    /\ fb_call = NoFBCall /\ fb_ret = NoFBRet

NextSource == FB_Has \/ FB_Take \/ FB_Read \/ FB_ReadInto \/ FB_Return

SpecSource == InitSource /\ [][NextSource]_vars

--------------------------------------------------------------------------
(* Claims about the byte source, checked under SpecSource.                 *)

ConsumingOps == {"take", "read", "read_into"}

\* The last call was a take or read that needs more bytes than remain.
NeedsMoreThanRemain ==
    /\ fb_pc = "returned"
    /\ fb_call.op \in ConsumingOps
    /\ ~SizeAtMost(fb_call.amount, Len(fb_in) - fb_call.from)

\* C17: over any sequence of has, take and read calls the cursor never
\* moves backward or past the end, a call hands out exactly the bytes the
\* cursor passes (so in input order and each at most once), and a take or
\* read that needs more bytes than remain fails with NotEnoughData without
\* handing out anything or reading outside the input.
C17_InOrderOnceOrNotEnoughData ==
    fb_pc = "returned" =>
        /\ fb_call.from <= fb_it /\ fb_it <= Len(fb_in)
        /\ ~fb_ret.ub /\ ~fb_ret.outside
        /\ fb_ret.bytes = SubSeq(fb_in, fb_call.from + 1, fb_it)
        /\ NeedsMoreThanRemain =>
               (fb_ret.err = "NOT_ENOUGH_DATA" /\ fb_it = fb_call.from)

\* C18: has(n) returns true exactly when at least n bytes are unread, for
\* every n of size_t (0 and values from 2^63 on included), and leaves the
\* cursor where it was.
C18_HasExact ==
    (fb_pc = "returned" /\ fb_call.op = "has") =>
        /\ fb_ret.ok = SizeAtMost(fb_call.amount, Len(fb_in) - fb_call.from)
        /\ fb_it = fb_call.from

--------------------------------------------------------------------------
(* The byte sinks: ToBytes<std::vector<uint8_t>> (backend/to_bytes.hpp),   *)
(* which appends to a container it holds by reference, and ForCount        *)
(* (backend/for_count.hpp), which only counts.  The same calls are made on *)
(* one sink of each kind.                                                  *)

\* ToBytes::put: out_.push_back(byte)
ToBytes_put(out, byte) == Append(out, byte)

\* ToBytes::write: out_.insert(out_.end(), bytes.begin(), bytes.end())
ToBytes_write(out, bytes) == out \o bytes

\* ToBytes::size: out_.size()
ToBytes_size(out) == Len(out)

\* ForCount::put: ++count_
ForCount_put(count, byte) == count + 1

\* A write that counts one byte whatever the span holds.
ForCount_write_one(count, bytes) == count + 1

\* ForCount::write: count_ += bytes.size()
ForCount_write(count, bytes) == count + Len(bytes)

\* ForCount::size
ForCount_size(count) == count

\* A value given to the compact encoder: a sign and a canonical magnitude.
Signed(neg, mag) == [neg |-> neg, mag |-> mag]

\* An encoder that puts the header of the big-integer tier before it tests
\* the byte count.
encodeCompactTo_header_first(v) ==
    IF v.neg THEN [err |-> "NEGATIVE_INTEGER", bytes |-> <<>>]
    ELSE IF Len(v.mag) > kMaxCompactBytes
    THEN [err |-> "VALUE_TOO_BIG_FOR_COMPACT_REPRESENTATION",
          bytes |-> <<((Len(v.mag) - 4) * 4 + 3) % 256>>]
    ELSE encodeCompact(v.mag)

\* The puts of the compact encoder for the value v on a sink: the error it
\* raises and the bytes it has put when it returns or raises.
encodeCompactTo(v) ==
    IF v.neg THEN [err |-> "NEGATIVE_INTEGER", bytes |-> <<>>]
    ELSE encodeCompact(v.mag)

MaxSinkBytes == 3

\* What the container holds when the ToBytes is constructed over it.
StartContainers == {<<>>, <<170>>}

PutBytes == {1, 2}

WriteSpans == {<<>>, <<3>>, <<4, 5>>}

\* Values given to the compact encoder: -1, 0, 63, 64, 2^30, 2^536 - 1
\* (the largest that has an encoding), 2^536 and -(2^536).
CompactValues ==
    {Signed(TRUE, <<1>>), Signed(FALSE, <<>>), Signed(FALSE, <<63>>),
     Signed(FALSE, <<64>>), Signed(FALSE, <<0, 0, 0, 64>>),
     Signed(FALSE, [i \in 1..kMaxCompactBytes |-> 255]),
     Signed(FALSE, [i \in 1..(kMaxCompactBytes + 1) |->
                        IF i = kMaxCompactBytes + 1 THEN 1 ELSE 0]),
     Signed(TRUE, [i \in 1..(kMaxCompactBytes + 1) |->
                       IF i = kMaxCompactBytes + 1 THEN 1 ELSE 0])}

SinkReady == sk_pc = "ready" /\ Len(sk_bytes) < MaxSinkBytes

\* A call has put the bytes added on both sinks and ended with err.
SinkStep(op, arg, err, new_out, new_count, added) ==
    /\ sk_pc' = "returned"
    /\ sk_call' = [op |-> op, arg |-> arg, err |-> err,
                   out |-> to_out, count |-> fc_count]
    /\ to_out' = new_out
    /\ fc_count' = new_count
    /\ sk_bytes' = sk_bytes \o added
    /\ UNCHANGED to_start
    /\ UNCHANGED otherSK

SK_Put ==
    /\ SinkReady
    /\ \E byte \in PutBytes :
        SinkStep("put", <<byte>>, "none", ToBytes_put(to_out, byte),
                 ForCount_put(fc_count, byte), <<byte>>)

SK_Write ==
    /\ SinkReady
    /\ \E bytes \in WriteSpans :
        SinkStep("write", bytes, "none", ToBytes_write(to_out, bytes),
                 ForCount_write(fc_count, bytes), bytes)

\* encode(Compact, encoder) on each sink
SK_EncodeCompact ==
    /\ SinkReady
    /\ \E v \in CompactValues :
        LET r == encodeCompactTo(v)
        IN  SinkStep("encode_compact", v, r.err, ToBytes_write(to_out, r.bytes),
                     ForCount_write(fc_count, r.bytes), r.bytes)

SK_Return ==
    /\ sk_pc = "returned"
    /\ sk_pc' = "ready"
    /\ sk_call' = NoSinkCall
    /\ UNCHANGED <<to_out, to_start, fc_count, sk_bytes>>
    /\ UNCHANGED otherSK

InitSink ==
    /\ IdleSBV /\ IdleCompact /\ IdleAppend /\ IdleBV /\ IdleSource /\ IdleCodec /\ IdleDecode
    /\ to_start \in StartContainers
    /\ to_out = to_start
    /\ fc_count = 0 /\ sk_bytes = <<>>
    /\ sk_pc = "ready" /\ sk_call = NoSinkCall

NextSink == SK_Put \/ SK_Write \/ SK_EncodeCompact \/ SK_Return

SpecSink == InitSink /\ [][NextSink]_vars

--------------------------------------------------------------------------
(* Claims about the byte sinks, checked under SpecSink.                    *)

\* C15: a compact-integer encode that fails, for a negative value or a
\* value above 2^536 - 1, has appended no byte: each sink holds exactly
\* what it held before the call.
C15_FailedEncodeWritesNothing ==
    (sk_pc = "returned" /\ sk_call.op = "encode_compact"
        /\ (sk_call.arg.neg \/ Len(sk_call.arg.mag) > kMaxCompactBytes)) =>
        /\ sk_call.err # "none"
        /\ to_out = sk_call.out
        /\ ForCount_size(fc_count) = sk_call.count

C15_Witness ==
    /\ sk_pc = "returned" /\ sk_call.op = "encode_compact"
    /\ ~sk_call.arg.neg /\ Len(sk_call.arg.mag) > kMaxCompactBytes
    /\ sk_call.err = "VALUE_TOO_BIG_FOR_COMPACT_REPRESENTATION"
    /\ to_out = sk_call.out /\ Len(to_out) > 1

\* C19 as stated: after any put and write calls size() of either sink is
\* the number of bytes appended through it since it was created.
C19_SizeIsBytesAppended ==
    /\ ToBytes_size(to_out) = Len(sk_bytes)
    /\ ForCount_size(fc_count) = Len(sk_bytes)

\* C19: after any put and write calls the counting sink's size() is the
\* number of bytes appended through it (1 per put, bytes.size() per write),
\* and the accumulating sink's size() is that number plus the number of
\* bytes its container held when the sink was created; the container holds
\* those bytes followed by the appended ones.
C19_SizeIsContainerSize ==
    /\ ForCount_size(fc_count) = Len(sk_bytes)
    /\ ToBytes_size(to_out) = Len(to_start) + Len(sk_bytes)
    /\ to_out = to_start \o sk_bytes

C19_Witness ==
    /\ sk_pc = "returned" /\ sk_call.op = "write"
    /\ to_start # <<>>
    /\ Len(sk_bytes) >= 3
    /\ ToBytes_size(to_out) = ForCount_size(fc_count) + 1

--------------------------------------------------------------------------
(* Codec calls on a byte string: the narrowing of a decoded compact        *)
(* integer, the decoding of dynamic collections (detail/collections.hpp)   *)
(* and the fixed-width big integers (detail/fixed_width_integer.hpp).      *)

\* msb(x) + 1 for a byte x > 0.
ByteBitLen(x) == CHOOSE k \in 1..CHAR_BIT : Pow2(k - 1) <= x /\ x < Pow2(k)

\* msb(m) + 1 for a canonical magnitude m, 0 for zero.
BitLen(m) ==
    IF m = <<>> THEN 0 ELSE CHAR_BIT * (Len(m) - 1) + ByteBitLen(m[Len(m)])

\* a > b for canonical magnitudes.
DigitsGreater(a, b) ==
    \/ Len(a) > Len(b)
    \/ /\ Len(a) = Len(b)
       /\ \E i \in 1..Len(a) :
             a[i] > b[i] /\ \A j \in (i + 1)..Len(a) : a[j] = b[j]

\* static_cast<T>(integer) for an unsigned T of the given number of bits.
static_cast_T(m, digits) ==
    Canon([i \in 1..Min(Len(m), digits \div CHAR_BIT) |-> m[i]])

\* A decodeCompact<T> whose test lets one bit too many through.
decodeCompactAs_off_by_one(w, digits) ==
    LET integer == decodeCompact(w)
    IN  IF integer.err # "none" THEN integer
        ELSE IF integer.value # <<>> /\ BitLen(integer.value) - 1 > digits
        THEN DecodeFail("DECODED_VALUE_OVERFLOWS_TARGET")
        ELSE [integer EXCEPT !.value = static_cast_T(@, digits)]

\* ScaleDecoderStream::decodeCompact<T>() for an integral T with
\* std::numeric_limits<T>::digits = digits.
decodeCompactAs(w, digits) ==
    LET integer == decodeCompact(w)
    IN  IF integer.err # "none" THEN integer
        ELSE IF integer.value # <<>> /\ BitLen(integer.value) - 1 >= digits
        THEN DecodeFail("DECODED_VALUE_OVERFLOWS_TARGET")
        ELSE [integer EXCEPT !.value = static_cast_T(@, digits)]

\* convert_to<T>(compact) for a Compact of an unsigned integral type:
\* static_cast<T>(value).
Compact_convert_to(value, digits) ==
    [err |-> "none", value |-> static_cast_T(value, digits), used |-> 0]

\* std::numeric_limits<size_t>::digits
size_t_digits == sizeof_size_t * CHAR_BIT

\* A guard that also refuses a count equal to max_size().
TooManyItems_at_limit(item_count, max_size) ==
    ~DigitsGreater(max_size, item_count)

\* item_count > collection.max_size()
TooManyItems(item_count, max_size) == DigitsGreater(item_count, max_size)

CollResult(err, stage, count, items) ==
    [err |-> err, stage |-> stage, count |-> count, items |-> items]

\* decode(bool &, Decoder &) on the byte b: the error it raises.
decode_bool_err(b) == IF b \in {0, 1} THEN "none" ELSE "UNEXPECTED_VALUE"

\* The element loop over the bytes rest for item_count one-byte elements:
\* uint8_t elements, or bool elements for std::vector<bool>.
decode_items(kind, rest, item_count) ==
    LET n == IF SizeAtMost(item_count, Len(rest)) THEN DigitsToNat(item_count)
             ELSE Len(rest)
        bad == IF kind = "vector_bool"
               THEN {i \in 1..n : decode_bool_err(rest[i]) # "none"}
               ELSE {}
        first_bad == CHOOSE i \in bad : \A j \in bad : i <= j
    IN  IF bad # {}
        THEN [err |-> "UNEXPECTED_VALUE", items |-> SubSeq(rest, 1, first_bad - 1)]
        ELSE IF ~SizeAtMost(item_count, Len(rest))
        THEN [err |-> "NOT_ENOUGH_DATA", items |-> SubSeq(rest, 1, n)]
        ELSE [err |-> "none", items |-> SubSeq(rest, 1, n)]

\* decode(collection, decoder) for the four kinds of dynamic collection,
\* the bytes wire in the decoder; alloc says whether the allocation the
\* call makes (reserve, resize, or the emplace of an element) succeeds.
\* stage names the step that raised: "count", "guard", "alloc", "items".
decode_collection(kind, wire, max_size, alloc) ==
    LET c == decodeCompactAs(wire, size_t_digits)
        item_count == c.value
        rest == SubSeq(wire, c.used + 1, Len(wire))
        r == decode_items(kind, rest, item_count)
    IN  IF c.err # "none" THEN CollResult(c.err, "count", <<>>, <<>>)
        ELSE IF TooManyItems(item_count, max_size)
        THEN CollResult("TOO_MANY_ITEMS", "guard", item_count, <<>>)
        ELSE IF kind # "random_extensible" /\ alloc = "bad_alloc"
                    /\ item_count # <<>>
        THEN CollResult("TOO_MANY_ITEMS", "alloc", item_count, <<>>)
        ELSE IF kind = "random_extensible" /\ alloc = "bad_alloc"
                    /\ r.items # <<>>
        THEN CollResult("TOO_MANY_ITEMS", "alloc", item_count, <<>>)
        ELSE CollResult(r.err, IF r.err = "none" THEN "done" ELSE "items",
                        item_count, r.items)

\* A big-integer size that rounds the bit count up.
BigInteger_size_rounded_up(digits) == (digits + 1 + CHAR_BIT - 1) \div CHAR_BIT

\* constexpr auto size = (std::numeric_limits<T>::digits + 1) / 8
BigInteger_size(digits) == (digits + 1) \div CHAR_BIT

\* encode(BigInteger, encoder): export_bits of the magnitude into a zeroed
\* array of size bytes, least significant byte first, then one write.
encode_BigInteger(mag, digits) == Pad(mag, BigInteger_size(digits))

\* decode(BigInteger &, decoder): read(size), then import_bits.
decode_BigInteger(wire, digits) ==
    LET size == BigInteger_size(digits)
    IN  IF Len(wire) < size THEN DecodeFail("NOT_ENOUGH_DATA")
        ELSE [err |-> "none", value |-> Canon(SubSeq(wire, 1, size)),
              used |-> size]

\* digits of uint8_t .. uint64_t
IntegralDigits == {8, 16, 32, 64}

\* The bit widths W of uint128_t .. uint1024_t and int128_t .. int1024_t;
\* (digits + 1) / 8 is W / 8 whether digits is W or W - 1.
BigIntegerDigits == {128, 256, 512, 1024}

\* 2^(8n) - 1 and 2^(8n)
AllOnes(n) == [i \in 1..n |-> 255]

Pow256(n) == [i \in 1..(n + 1) |-> IF i = n + 1 THEN 1 ELSE 0]

\* Magnitudes at the edges of every target type.
EdgeMags ==
    {<<>>, <<1>>, <<128>>}
        \cup {AllOnes(d \div CHAR_BIT) : d \in IntegralDigits}
        \cup {Pow256(d \div CHAR_BIT) : d \in IntegralDigits}

\* Byte strings given to decodeCompact<T>: the encodings of the edge
\* magnitudes, an empty and a cut one, and a redundant one.
NarrowWires ==
    {encodeCompact(m).bytes : m \in EdgeMags} \cup {<<>>, <<1>>, <<1, 0>>}

CollectionKinds ==
    {"extensible_back", "resizeable", "random_extensible", "vector_bool"}

MaxItems == 3

\* max_size() of the targets: the small limits of the size-limited test
\* containers and PTRDIFF_MAX of a std::vector<uint8_t>.
MaxSizes ==
    {SizeT(n) : n \in (MaxItems - 1)..(MaxItems + 1)}
        \cup {[i \in 1..sizeof_size_t |-> IF i = sizeof_size_t THEN 127 ELSE 255]}

\* Element bytes following the count.
ItemBytes == {<<>>, <<1>>, <<1, 0, 1>>, <<1, 2, 3>>, <<1, 0, 1, 1, 0>>}

\* Element counts on the wire: around the small limits, 2^63 - 1, 2^63,
\* 2^64 - 1 and 2^64.
ItemCounts ==
    {SizeT(n) : n \in 0..(MaxItems + 2)}
        \cup {[i \in 1..sizeof_size_t |-> IF i = sizeof_size_t THEN 127 ELSE 255],
              [i \in 1..sizeof_size_t |-> IF i = sizeof_size_t THEN 128 ELSE 0],
              SIZE_MAX, Pow256(sizeof_size_t)}

CollectionWires ==
    {encodeCompact(n).bytes \o d : n \in ItemCounts, d \in ItemBytes}
        \cup {<<>>, <<1, 0>>}

\* Magnitudes of big integers of the given digits: 0, 1, 2^64 and the
\* largest.
BigMags(digits) ==
    {<<>>, <<1>>, Pow256(sizeof_size_t), AllOnes(digits \div CHAR_BIT)}

\* Bytes following an encoded big integer in the decoder.
Trailing == {<<>>, <<7>>}

CodecReady == cd_pc = "ready"

CodecStep(call, ret) ==
    /\ cd_pc' = "returned"
    /\ cd_call' = call
    /\ cd_ret' = ret
    /\ UNCHANGED otherCD

CD_DecodeCompactAs ==
    /\ CodecReady
    /\ \E w \in NarrowWires, digits \in IntegralDigits :
            CodecStep([op |-> "decodeCompact", wire |-> w, digits |-> digits],
                      decodeCompactAs(w, digits))

\* convert_to<T> of a Compact<U> that decodeCompact<U> produced
CD_ConvertTo ==
    /\ CodecReady
    /\ \E w \in NarrowWires, from \in IntegralDigits, digits \in IntegralDigits :
            /\ decodeCompactAs(w, from).err = "none"
            /\ CodecStep([op |-> "convert_to", wire |-> w, digits |-> digits,
                          from |-> from],
                         Compact_convert_to(decodeCompactAs(w, from).value, digits))

CD_DecodeCollection ==
    /\ CodecReady
    /\ \E kind \in CollectionKinds, w \in CollectionWires, max_size \in MaxSizes,
           alloc \in {"ok", "bad_alloc"} :
            CodecStep([op |-> "decode_collection", kind |-> kind, wire |-> w,
                       max_size |-> max_size, alloc |-> alloc],
                      decode_collection(kind, w, max_size, alloc))

CD_EncodeBigInteger ==
    /\ CodecReady
    /\ \E digits \in BigIntegerDigits :
            \E mag \in BigMags(digits) :
                CodecStep([op |-> "encode_big", digits |-> digits, mag |-> mag],
                          [err |-> "none", bytes |-> encode_BigInteger(mag, digits)])

\* decode of the bytes encode writes for a big integer, whole, followed by
\* another byte, or cut short by one
CD_DecodeBigInteger ==
    /\ CodecReady
    /\ \E digits \in BigIntegerDigits :
            \E mag \in BigMags(digits), t \in Trailing, cut \in 0..1 :
                /\ cut = 1 => t = <<>>
                /\ LET enc == encode_BigInteger(mag, digits)
                       w == SubSeq(enc, 1, Len(enc) - cut) \o t
                   IN  CodecStep([op |-> "decode_big", digits |-> digits,
                                  mag |-> mag, wire |-> w, written |-> Len(enc)],
                                 decode_BigInteger(w, digits))

CD_Return ==
    /\ cd_pc = "returned"
    /\ cd_pc' = "ready"
    /\ cd_call' = NoCodecCall
    /\ cd_ret' = NoCodecCall
    /\ UNCHANGED otherCD

--------------------------------------------------------------------------
(* Variants: ScaleDecoderStream::operator>>(std::variant<Ts...> &).        *)

\* operator>>(T &) for an integral T of size bytes at offset at of the
\* bytes w: hasMore(sizeof(T)), then a little-endian load.
decode_integral(w, at, size) ==
    IF Len(w) - at < size THEN DecodeFail("NOT_ENOUGH_DATA")
    ELSE [err |-> "none", value |-> Canon(SubSeq(w, at + 1, at + size)),
          used |-> size]

VariantResult(err, v, used) == [err |-> err, v |-> v, used |-> used]

\* A variant decoder that takes the last alternative for an index that is
\* out of range.
decode_variant_clamped(ts, w, v) ==
    LET index == decode_integral(w, 0, 1)
        type_index == IF index.value = <<>> THEN 0 ELSE index.value[1]
        i == IF type_index >= Len(ts) THEN Len(ts) - 1 ELSE type_index
        val == decode_integral(w, 1, ts[i + 1])
    IN  IF index.err # "none" THEN VariantResult(index.err, v, 0)
        ELSE IF val.err # "none" THEN VariantResult(val.err, v, 1)
        ELSE VariantResult("none", [index |-> i, value |-> val.value],
                           1 + val.used)

\* operator>>(std::variant<Ts...> &v) on the bytes w, ts the sizes of the
\* integral alternatives Ts: the index byte, the range test, then
\* tryDecodeAsOneOfVariant<0>, which decodes a T val{} and assigns it to v.
decode_variant(ts, w, v) ==
    LET index == decode_integral(w, 0, 1)
        type_index == IF index.value = <<>> THEN 0 ELSE index.value[1]
        val == decode_integral(w, 1, ts[type_index + 1])
    IN  IF index.err # "none" THEN VariantResult(index.err, v, 0)
        ELSE IF type_index >= Len(ts)
        THEN VariantResult("WRONG_TYPE_INDEX", v, 1)
        ELSE IF val.err # "none" THEN VariantResult(val.err, v, 1)
        ELSE VariantResult("none",
                           [index |-> type_index, value |-> val.value],
                           1 + val.used)

\* The alternatives of the variants decoded: std::variant<uint8_t,
\* uint32_t> of the tests, a variant of one and a variant of three types.
VariantTypes == {<<1>>, <<1, 4>>, <<1, 4, 2>>}

MaxTypeIndex == 4

\* Index bytes: every index up to MaxTypeIndex and 255.
TypeIndexBytes == (0..MaxTypeIndex) \cup {255}

\* The bytes after the index byte.
VariantPayloads == {<<>>, <<1>>, <<2, 0>>, <<2, 0, 0, 0>>, <<1, 2, 3, 4, 5>>}

VariantWires ==
    {<<>>} \cup {<<d>> \o p : d \in TypeIndexBytes, p \in VariantPayloads}

\* The variant before the call: value-initialised, or holding its last
\* alternative.
VariantBefore(ts) ==
    {[index |-> 0, value |-> <<>>], [index |-> Len(ts) - 1, value |-> <<9>>]}

CD_DecodeVariant ==
    /\ CodecReady
    /\ \E ts \in VariantTypes, w \in VariantWires :
         \E v \in VariantBefore(ts) :
            CodecStep([op |-> "decode_variant", ts |-> ts, wire |-> w,
                       before |-> v],
                      decode_variant(ts, w, v))

\* C21: decoding a variant of N alternatives reads one index byte d; for
\* d >= N it fails with WRONG_TYPE_INDEX and the variant keeps what it
\* held, and for d < N a successful decode leaves alternative d holding
\* the payload decoded as that alternative's type.
C21_VariantIndexChecked ==
    (cd_pc = "returned" /\ cd_call.op = "decode_variant"
        /\ cd_call.wire # <<>>) =>
        LET d == cd_call.wire[1]
            N == Len(cd_call.ts)
        IN  /\ d >= N =>
                (cd_ret.err = "WRONG_TYPE_INDEX" /\ cd_ret.v = cd_call.before)
            /\ d < N =>
                LET size == cd_call.ts[d + 1]
                IN  IF Len(cd_call.wire) >= 1 + size
                    THEN /\ cd_ret.err = "none"
                         /\ cd_ret.v.index = d
                         /\ cd_ret.v.value =
                                Canon(SubSeq(cd_call.wire, 2, 1 + size))
                         /\ cd_ret.used = 1 + size
                    ELSE /\ cd_ret.err = "NOT_ENOUGH_DATA"
                         /\ cd_ret.v = cd_call.before

\* The index byte 2 was refused by a variant of two alternatives that held
\* its second alternative, the bytes of a uint32_t following.
C21_Witness ==
    /\ cd_pc = "returned" /\ cd_call.op = "decode_variant"
    /\ cd_call.ts = <<1, 4>> /\ cd_call.wire = <<2, 2, 0, 0, 0>>
    /\ cd_call.before.index = 1
    /\ cd_ret.err = "WRONG_TYPE_INDEX" /\ cd_ret.v = cd_call.before

--------------------------------------------------------------------------
(* Enumerations: detail/enum.hpp.  An enumeration type is a record of its  *)
(* underlying type (size in bytes, is_signed), its enumerators (named),    *)
(* the scope its enumerators are printed in (the names before the last     *)
(* "::" of a printed enumerator, none for an unscoped enumeration of the   *)
(* global namespace) and its enum_traits (traits: "valid_values",          *)
(* "min_max" or "none").                                                    *)

\* The underlying value of size little-endian bytes, two's complement for
\* a signed type.
underlying_value(bytes, is_signed) ==
    LET u == DigitsToNat(bytes)
        half == Pow2(CHAR_BIT * Len(bytes) - 1)
    IN  IF is_signed /\ u >= half THEN u - 2 * half ELSE u

\* What the compiler prints for static_cast<E>(value) in
\* __PRETTY_FUNCTION__: the qualified enumerator, or "(E)value" when no
\* enumerator has the value.
pretty_enum_value(E, value) ==
    IF value \in E.named
    THEN [paren |-> FALSE, scope |-> E.scope]
    ELSE [paren |-> TRUE, scope |-> <<>>]

\* enum_name_impl<V>().size() > 0: the text does not start with "(" and
\* holds a "::".
enum_name_impl_nonempty(E, value) ==
    LET func == pretty_enum_value(E, value)
    IN  ~func.paren /\ func.scope # <<>>

is_valid_enum_value_by_reflection(E, value) ==
    \E Vs \in E.named : enum_name_impl_nonempty(E, Vs) /\ Vs = value

is_valid_enum_value_range(E, value) ==
    value >= E.min_value /\ value <= E.max_value

is_valid_enum_value_list(E, value) == value \in E.valid_values

is_valid_enum_value(E, value) ==
    IF E.traits = "valid_values" THEN is_valid_enum_value_list(E, value)
    ELSE IF E.traits = "min_max" THEN is_valid_enum_value_range(E, value)
    ELSE is_valid_enum_value_by_reflection(E, value)

\* decode(Enumeration auto &v, decoder): the underlying value, the
\* validation, and the assignment.
decode_enum(E, w, v) ==
    LET raw == decode_integral(w, 0, E.size)
        value == underlying_value(SubSeq(w, 1, E.size), E.is_signed)
    IN  IF raw.err # "none" THEN [err |-> raw.err, v |-> v]
        ELSE IF is_valid_enum_value(E, value)
        THEN [err |-> "none", v |-> value]
        ELSE [err |-> "INVALID_ENUM_VALUE", v |-> v]

EnumType(size, is_signed, named, scope, traits, valid_values, min_value, max_value) ==
    [size |-> size, is_signed |-> is_signed, named |-> named, scope |-> scope,
     traits |-> traits, valid_values |-> valid_values,
     min_value |-> min_value, max_value |-> max_value]

\* enum class Foo : uint16_t { A = 0, B = 1, C = 2 } with a value range.
Foo == EnumType(2, FALSE, {0, 1, 2}, <<"Foo">>, "min_max", {}, 0, 2)

\* enum class Bar { A = -32, B = 42, C = 0 } with a value list, over a
\* two-byte signed underlying type.
Bar == EnumType(2, TRUE, {-32, 42, 0}, <<"Bar">>, "valid_values",
                {-32, 42, 0}, 0, 0)

\* enum class Baz : int8_t { A = -10, B = 0, C = 20 }
Baz == EnumType(1, TRUE, {-10, 0, 20}, <<"TestBody", "Baz">>, "none", {}, 0, 0)

\* enum class Qux : uint8_t { A = 0, B = 10, C = 20 }
Qux == EnumType(1, FALSE, {0, 10, 20}, <<"TestBody", "Qux">>, "none", {}, 0, 0)

\* enum Plain : uint8_t { PA = 0, PB = 1 } in a namespace and in the
\* global namespace.
NamespacePlain == EnumType(1, FALSE, {0, 1}, <<"ns">>, "none", {}, 0, 0)

GlobalPlain == EnumType(1, FALSE, {0, 1}, <<>>, "none", {}, 0, 0)

EnumTypes == {Foo, Bar, Baz, Qux, NamespacePlain, GlobalPlain}

MaxEnumByte == 43

\* The bytes an enumeration is decoded from: low bytes up to MaxEnumByte
\* and around the sign change, high bytes 0, 1 and 255.
EnumLowBytes == (0..MaxEnumByte) \cup {127, 128, 224, 246, 255}

EnumWires(size) ==
    IF size = 1 THEN {<<>>} \cup {<<b>> : b \in EnumLowBytes}
    ELSE {<<>>, <<1>>} \cup {<<b, h>> : b \in EnumLowBytes, h \in {0, 1, 255}}

CD_DecodeEnum ==
    /\ CodecReady
    /\ \E E \in EnumTypes :
         \E w \in EnumWires(E.size), v \in E.named :
            CodecStep([op |-> "decode_enum", E |-> E, wire |-> w,
                       before |-> v],
                      decode_enum(E, w, v))

\* The values the type declares valid: the value list, else the inclusive
\* range, else the named enumerators of a 1-byte enumeration.
DeclaredValid(E) ==
    IF E.traits = "valid_values" THEN E.valid_values
    ELSE IF E.traits = "min_max" THEN E.min_value..E.max_value
    ELSE E.named

\* C22: decoding an enumeration succeeds exactly when the decoded
\* underlying integer belongs to the declared valid set of the type, and
\* every other underlying value fails with INVALID_ENUM_VALUE.
C22_EnumValidatedOnDecode ==
    (cd_pc = "returned" /\ cd_call.op = "decode_enum"
        /\ Len(cd_call.wire) >= cd_call.E.size) =>
        LET E == cd_call.E
            value == underlying_value(cd_call.wire, E.is_signed)
        IN  IF value \in DeclaredValid(E)
            THEN cd_ret.err = "none" /\ cd_ret.v = value
            ELSE cd_ret.err = "INVALID_ENUM_VALUE" /\ cd_ret.v = cd_call.before

\* The same statement for every type whose enumerators are printed with a
\* scope, or that has enum_traits.
EnumValidatedWhenQualified ==
    (cd_pc = "returned" /\ cd_call.op = "decode_enum"
        /\ Len(cd_call.wire) >= cd_call.E.size
        /\ (cd_call.E.traits # "none" \/ cd_call.E.scope # <<>>)) =>
        LET E == cd_call.E
            value == underlying_value(cd_call.wire, E.is_signed)
        IN  IF value \in DeclaredValid(E)
            THEN cd_ret.err = "none" /\ cd_ret.v = value
            ELSE cd_ret.err = "INVALID_ENUM_VALUE" /\ cd_ret.v = cd_call.before

--------------------------------------------------------------------------
(* Custom decomposition: SCALE_CUSTOM_DECOMPOSITION and the encode and     *)
(* decode of a decomposable object.  A type is a record of its uint16_t    *)
(* members (fields), the members declared const (consts) and the listed    *)
(* arguments of the macro (list), each a member and its transform: "plain" *)
(* or "as_compact".                                                        *)

sizeof_uint16_t == 2

\* encode of one listed argument holding the value x.
encode_arg(transform, x) ==
    IF transform = "as_compact" THEN encodeCompact(NatToDigits(x)).bytes
    ELSE Pad(NatToDigits(x), sizeof_uint16_t)

\* encode(Decomposable, encoder): (encode(args, encoder), ...) over the
\* listed arguments, left to right.
RECURSIVE encode_decomposable(_, _)
encode_decomposable(list, v) ==
    IF list = <<>> THEN <<>>
    ELSE encode_arg(Head(list).transform, v[Head(list).member])
            \o encode_decomposable(Tail(list), v)

\* decode of one listed argument from the bytes w.
decode_arg(transform, w) ==
    IF transform = "as_compact"
    THEN decodeCompactAs(w, sizeof_uint16_t * CHAR_BIT)
    ELSE decode_integral(w, 0, sizeof_uint16_t)

\* decode(Decomposable &, decoder): (decode(const_cast<...&>(args),
\* decoder), ...) over the listed arguments, left to right, each one
\* assigned as soon as it is decoded.  The assignment through the
\* const_cast to a member declared const modifies a const object: it
\* takes effect or not, as const_writes says.
RECURSIVE decode_decomposable(_, _, _, _, _)
decode_decomposable(list, consts, w, v, const_writes) ==
    IF list = <<>> THEN [err |-> "none", v |-> v, used |-> 0]
    ELSE
    LET arg == Head(list)
        r == decode_arg(arg.transform, w)
        written == arg.member \notin consts \/ const_writes
        v1 == IF written
              THEN [v EXCEPT ![arg.member] = DigitsToNat(r.value)]
              ELSE v
        rest == decode_decomposable(Tail(list), consts,
                                    SubSeq(w, r.used + 1, Len(w)), v1,
                                    const_writes)
    IN  IF r.err # "none" THEN [err |-> r.err, v |-> v, used |-> 0]
        ELSE [rest EXCEPT !.used = @ + r.used]

Members == {"m1", "m2", "m3", "m4"}

Arg(member, transform) == [member |-> member, transform |-> transform]

\* struct CustomDecomposable of the tests: m2 and m4 const,
\* SCALE_CUSTOM_DECOMPOSITION(CustomDecomposable, m1, as_compact(m3), m4).
CustomDecomposable ==
    [consts |-> {"m2", "m4"},
     list |-> <<Arg("m1", "plain"), Arg("m3", "as_compact"), Arg("m4", "plain")>>]

\* A type without const members whose list reorders and omits:
\* SCALE_CUSTOM_DECOMPOSITION(Reordered, m3, as_compact(m1)).
Reordered ==
    [consts |-> {},
     list |-> <<Arg("m3", "plain"), Arg("m1", "as_compact")>>]

DecomposableTypes == {CustomDecomposable, Reordered}

MaxField == 2

\* Member values: small ones and the edges of the compact tiers and of
\* uint16_t.
FieldValues == (0..MaxField) \cup {64, 16384, 65535}

\* Objects encoded: every listed member from FieldValues, the others 7.
Objects(T) ==
    {v \in [Members -> FieldValues \cup {7}] :
        \A m \in Members :
            (\E i \in 1..Len(T.list) : T.list[i].member = m) <=> v[m] # 7}

\* The object a decode is given: value-initialised, or holding 9 in every
\* member.
Targets == {[m \in Members |-> 0], [m \in Members |-> 9]}

CD_EncodeDecomposable ==
    /\ CodecReady
    /\ \E T \in DecomposableTypes :
         \E v \in Objects(T) :
            CodecStep([op |-> "encode_decomposable", T |-> T, value |-> v],
                      [err |-> "none", bytes |-> encode_decomposable(T.list, v)])

\* decode of the bytes encode wrote for an object, whole or cut short by
\* one byte.
CD_DecodeDecomposable ==
    /\ CodecReady
    /\ \E T \in DecomposableTypes, const_writes \in BOOLEAN, cut \in 0..1 :
         \E v \in Objects(T), target \in Targets :
            LET enc == encode_decomposable(T.list, v)
                w == SubSeq(enc, 1, Len(enc) - cut)
            IN  CodecStep([op |-> "decode_decomposable", T |-> T,
                           value |-> v, wire |-> w, before |-> target,
                           whole |-> (cut = 0)],
                          decode_decomposable(T.list, T.consts, w, target,
                                              const_writes))

--------------------------------------------------------------------------
(* Claims about custom decomposition.                                      *)

\* The members a type lists.
Listed(T) == {T.list[i].member : i \in 1..Len(T.list)}

\* The bytes of the listed arguments of the object v, one after another.
ListedBytes(T, v) ==
    LET e(i) == encode_arg(T.list[i].transform, v[T.list[i].member])
    IN  IF Len(T.list) = 2 THEN e(1) \o e(2) ELSE e(1) \o e(2) \o e(3)

\* C23: for a type with a custom field list, encode writes exactly the
\* listed fields in the listed order with the declared transform of each,
\* and decode assigns exactly those fields from the bytes in the same
\* order while every omitted field keeps the value it had.
C23_CustomFieldList ==
    /\ (cd_pc = "returned" /\ cd_call.op = "encode_decomposable") =>
          cd_ret.bytes = ListedBytes(cd_call.T, cd_call.value)
    /\ (cd_pc = "returned" /\ cd_call.op = "decode_decomposable"
            /\ cd_call.whole) =>
          /\ cd_ret.err = "none"
          /\ cd_ret.used = Len(cd_call.wire)
          /\ \A m \in Members :
                cd_ret.v[m] = (IF m \in Listed(cd_call.T)
                               THEN cd_call.value[m]
                               ELSE cd_call.before[m])

\* The same statement for the types that list no member declared const.
FieldListFollowedWithoutConst ==
    (cd_pc = "returned"
        /\ cd_call.op \in {"encode_decomposable", "decode_decomposable"}
        /\ Listed(cd_call.T) \cap cd_call.T.consts = {}) =>
        C23_CustomFieldList

--------------------------------------------------------------------------
(* The specification of the codec calls.                                   *)

InitCodec ==
    IdleSBV /\ IdleCompact /\ IdleAppend /\ IdleBV /\ IdleSource /\ IdleSink /\ IdleCodec /\ IdleDecode

NextCodec ==
    \/ CD_DecodeCompactAs \/ CD_ConvertTo \/ CD_DecodeCollection
    \/ CD_EncodeBigInteger \/ CD_DecodeBigInteger
    \/ CD_DecodeVariant \/ CD_DecodeEnum
    \/ CD_EncodeDecomposable \/ CD_DecodeDecomposable
    \/ CD_Return

SpecCodec == InitCodec /\ [][NextCodec]_vars

--------------------------------------------------------------------------
(* Claims about the codec calls.                                           *)

\* The element count a collection decode read, when it read one.
DecodedCount == decodeCompact(cd_call.wire).value

\* C14: decoding a dynamic collection (resizeable, extensible-back,
\* randomly-extensible or vector<bool>) whose decoded element count is
\* greater than the target's max_size() fails with TOO_MANY_ITEMS, and the
\* guard never rejects a count that is at most max_size().
C14_TooManyItemsGuard ==
    (cd_pc = "returned" /\ cd_call.op = "decode_collection"
        /\ cd_ret.stage # "count") =>
        LET n == sizeof_size_t + 1
            count == Pad(DecodedCount, n)
            limit == Pad(cd_call.max_size, n)
            exceeds == \E i \in 1..n :
                          /\ count[i] > limit[i]
                          /\ \A j \in (i + 1)..n : count[j] = limit[j]
        IN  /\ cd_ret.count = DecodedCount
            /\ exceeds => cd_ret.err = "TOO_MANY_ITEMS"
            /\ exceeds <=> cd_ret.stage = "guard"

\* A count of MaxItems was refused by a target whose max_size() is one
\* less, the elements present on the wire.
C14_Witness ==
    /\ cd_pc = "returned" /\ cd_call.op = "decode_collection"
    /\ cd_call.max_size = SizeT(MaxItems - 1) /\ cd_ret.count = SizeT(MaxItems)
    /\ cd_call.alloc = "ok" /\ Len(cd_call.wire) > 3
    /\ cd_ret.err = "TOO_MANY_ITEMS" /\ cd_ret.stage = "guard"

\* C16: narrowing a decoded compact integer to an integral type T fails
\* with DECODED_VALUE_OVERFLOWS_TARGET exactly when the magnitude is
\* greater than the maximum of T, and otherwise T receives the magnitude
\* unchanged.
C16_NarrowingFailsOnOverflow ==
    (cd_pc = "returned" /\ cd_call.op \in {"decodeCompact", "convert_to"}
        /\ decodeCompact(cd_call.wire).err = "none") =>
        LET m == decodeCompact(cd_call.wire).value
        IN  /\ cd_ret.err = "DECODED_VALUE_OVERFLOWS_TARGET"
                <=> ~Below(m, cd_call.digits)
            /\ Below(m, cd_call.digits)
                => (cd_ret.err = "none" /\ cd_ret.value = m)

\* The same statement for ScaleDecoderStream::decodeCompact<T>() alone.
DecodeCompactNarrowsExactly ==
    (cd_pc = "returned" /\ cd_call.op = "decodeCompact"
        /\ decodeCompact(cd_call.wire).err = "none") =>
        LET m == decodeCompact(cd_call.wire).value
        IN  /\ cd_ret.err = "DECODED_VALUE_OVERFLOWS_TARGET"
                <=> ~Below(m, cd_call.digits)
            /\ Below(m, cd_call.digits)
                => (cd_ret.err = "none" /\ cd_ret.value = m)

\* C20 as stated: a big integer of W bits is written in ceil((W + 1) / 8)
\* bytes.
C20_WritesCeilBytes ==
    (cd_pc = "returned" /\ cd_call.op = "encode_big") =>
        Len(cd_ret.bytes) = (cd_call.digits + 1 + 7) \div 8

\* C20: a big integer of W bits is written in exactly W / 8 bytes, the
\* magnitude least significant byte first, and decoding it consumes
\* exactly that many bytes and fails with NOT_ENOUGH_DATA on fewer.
C20_WritesWidthBytes ==
    /\ (cd_pc = "returned" /\ cd_call.op = "encode_big") =>
          /\ Len(cd_ret.bytes) = cd_call.digits \div 8
          /\ \A i \in 1..Len(cd_ret.bytes) :
                cd_ret.bytes[i] =
                    (IF i <= Len(cd_call.mag) THEN cd_call.mag[i] ELSE 0)
    /\ (cd_pc = "returned" /\ cd_call.op = "decode_big") =>
          /\ cd_call.written = cd_call.digits \div 8
          /\ IF Len(cd_call.wire) < cd_call.written
             THEN cd_ret.err = "NOT_ENOUGH_DATA"
             ELSE /\ cd_ret.err = "none"
                  /\ cd_ret.used = cd_call.written
                  /\ cd_ret.value = cd_call.mag

\* The largest uint128_t was decoded from its 16 bytes with a byte left.
C20_Witness ==
    /\ cd_pc = "returned" /\ cd_call.op = "decode_big"
    /\ cd_call.digits = 128 /\ Len(cd_call.mag) = 16
    /\ Len(cd_call.wire) = 17 /\ cd_ret.err = "none"
    /\ cd_ret.used = 16 /\ cd_ret.value = cd_call.mag

--------------------------------------------------------------------------
(* Decoding step by step: the length prefix and the tests before the loop  *)
(* (the header), then one iteration of the decode loop per step.  dl holds *)
(* the kind of target, the input in and the position it, the decoded       *)
(* length size, the byte count need computed from it, the loop variable i, *)
(* whether the target was resized or assigned (touched), whether a shift   *)
(* by the width of the word or more was made (ub), and the error raised.   *)

\* (d + k) mod 2^64 for a size_t d and a small k.
RECURSIVE AddCarry(_, _)
AddCarry(p, c) ==
    IF p = <<>> THEN <<>>
    ELSE <<(p[1] + c) % 256>> \o AddCarry(Tail(p), (p[1] + c) \div 256)

size_t_add(d, k) == Canon(AddCarry(Pad(d, sizeof_size_t), k))

\* d / 8 for a size_t d.
size_t_div8(d) ==
    Canon([i \in 1..Len(d) |->
              (d[i] \div 8) + (IF i < Len(d) THEN (d[i + 1] % 8) * 32 ELSE 0)])

\* A byte count that rounds without adding to the size.
byte_count_divided_first(size) ==
    size_t_add(size_t_div8(size), IF size # <<>> /\ size[1] % 8 # 0 THEN 1 ELSE 0)

\* (size + CHAR_BIT - 1) / CHAR_BIT in size_t arithmetic.
byte_count(size) == size_t_div8(size_t_add(size, CHAR_BIT - 1))

\* std::vector<bool>::max_size(): 2^63 - 64.
vector_bool_max_size ==
    [i \in 1..sizeof_size_t |->
        IF i = 1 THEN 192 ELSE IF i = sizeof_size_t THEN 127 ELSE 255]

\* std::vector<uint8_t>::max_size(): PTRDIFF_MAX.
vector_max_size ==
    [i \in 1..sizeof_size_t |-> IF i = sizeof_size_t THEN 127 ELSE 255]

\* size_ : 63, the bit field a BitVector keeps its size in.
size_field(d) ==
    Canon([i \in 1..Len(d) |-> IF i = sizeof_size_t THEN d[i] % 128 ELSE d[i]])

BitVectorKinds == {"BitVec", "SmallBitVector", "BitVector"}

Decoding(kind, in, it, size, need, i, touched, stored, elem) ==
    [pc |-> "loop", kind |-> kind, in |-> in, it |-> it, from |-> it,
     size |-> size, need |-> need, i |-> i, touched |-> touched,
     stored |-> stored, ub |-> FALSE, err |-> "none", elem |-> elem]

Raised(d, e) == [d EXCEPT !.pc = "done", !.err = e]

\* The part of decode before its loop, for the target kind and the bytes
\* in.  elem is the number of bytes one element of a collection takes and
\* alloc whether reserve succeeds.
decode_header(kind, in, elem, alloc) ==
    LET c == decodeCompactAs(in, size_t_digits)
        size == c.value
        need == IF kind \in BitVectorKinds THEN byte_count(size) ELSE size
        d == Decoding(kind, in, c.used, size, need, 0, FALSE, <<>>, elem)
    IN  IF c.err # "none"
        THEN Raised(Decoding(kind, in, 0, <<>>, <<>>, 0, FALSE, <<>>, elem), c.err)
        ELSE IF kind \in BitVectorKinds
        THEN IF ~FromBytes_has(in, c.used, need)
             THEN Raised(d, "NOT_ENOUGH_DATA")
             ELSE IF kind = "BitVec"
             THEN \* v.bits.resize(size)
                  IF DigitsGreater(size, vector_bool_max_size)
                  THEN Raised(d, "std::length_error")
                  ELSE [d EXCEPT !.touched = TRUE, !.stored = size]
             ELSE IF kind = "BitVector"
             THEN \* bit_vector.resize(bit_size)
                  [d EXCEPT !.touched = TRUE, !.stored = size_field(size)]
             ELSE d
        ELSE IF DigitsGreater(size, vector_max_size)
        THEN Raised(d, "TOO_MANY_ITEMS")
        ELSE IF kind = "extensible_back"
        THEN \* collection.clear(); collection.reserve(item_count)
             IF alloc = "bad_alloc"
             THEN Raised([d EXCEPT !.touched = TRUE], "TOO_MANY_ITEMS")
             ELSE [d EXCEPT !.touched = TRUE]
        ELSE \* collection.clear()
             [d EXCEPT !.touched = TRUE]

\* The loop variable is below its limit: i < size for the bits of a BitVec
\* and of a SmallBitVector and the elements of a collection, i < byte_size
\* for the bytes of a BitVector.
loop_continues(d) ==
    LET limit == IF d.kind = "BitVector" THEN d.need ELSE d.size
    IN  ~SizeAtMost(limit, d.i)

\* One evaluation of the loop condition and, when it holds, of the body.
decode_iteration(d) ==
    LET t == FromBytes_take(d.in, d.it)
        last_bits == IF d.size = <<>> THEN 0 ELSE d.size[1] % CHAR_BIT
        byte_size == DigitsToNat(d.need)
    IN  IF ~loop_continues(d)
        THEN IF d.kind = "BitVector" /\ last_bits > 0 /\ byte_size > 0
                /\ BitAnd(d.in[d.from + byte_size], 255 * Pow2(last_bits)) # 0
             THEN \* data[byte_size - 1] & (uint8_t(-1) << last_bits)
                  Raised(d, "UNUSED_BITS_ARE_SET")
             ELSE \* v = SmallBitVector(bits) after the loop of that kind
                  [d EXCEPT !.pc = "done",
                            !.touched = @ \/ d.kind = "SmallBitVector"]
        ELSE IF d.kind = "BitVec"
        THEN \* if (i % 8 == 0) byte = decoder.take(); bit = ...; ++i
             IF d.i % CHAR_BIT = 0 /\ t.err # "none" THEN Raised(d, t.err)
             ELSE [d EXCEPT !.it = IF d.i % CHAR_BIT = 0 THEN t.it ELSE @,
                            !.i = @ + 1]
        ELSE IF d.kind = "SmallBitVector"
        THEN \* byte = decoder.take(); bits |= T(byte) << i; i += CHAR_BIT
             IF t.err # "none" THEN Raised(d, t.err)
             ELSE [d EXCEPT !.it = t.it, !.i = @ + CHAR_BIT,
                            !.ub = @ \/ d.i >= all_bits]
        ELSE IF d.kind = "BitVector"
        THEN \* data[i] = decoder.take(); ++i
             IF t.err # "none" THEN Raised(d, t.err)
             ELSE [d EXCEPT !.it = t.it, !.i = @ + 1]
        ELSE \* emplace_back(); decode(collection.back(), decoder); ++i
             IF Len(d.in) - d.it < d.elem THEN Raised(d, "NOT_ENOUGH_DATA")
             ELSE [d EXCEPT !.it = @ + d.elem, !.i = @ + 1]

MaxBits == 17

\* Declared lengths: every length up to MaxBits, 2^63, and the last eight
\* values of size_t.
DeclaredLengths ==
    {SizeT(n) : n \in 0..MaxBits}
        \cup {[i \in 1..sizeof_size_t |-> IF i = sizeof_size_t THEN 128 ELSE 0]}
        \cup {[i \in 1..sizeof_size_t |-> IF i = 1 THEN b ELSE 255] :
                 b \in 248..255}

MaxData == 3

\* The bytes after the length prefix.
DataBytesAfter == {[i \in 1..n |-> b] : n \in 0..MaxData, b \in {1, 255}}

MaxReserve == 4

\* Element counts of collections; a reserve of more than MaxReserve
\* elements does not succeed.
ElementCounts ==
    {SizeT(n) : n \in 0..(MaxReserve + 1)} \cup {vector_max_size, SIZE_MAX}

\* Bytes per element: an empty aggregate, uint8_t, uint16_t.
ElementSizes == 0..2

DL_DecodeBitVector ==
    /\ dl.pc = "idle"
    /\ \E kind \in BitVectorKinds, size \in DeclaredLengths,
          data \in DataBytesAfter :
          dl' = decode_header(kind, encodeCompact(size).bytes \o data, 0, "ok")
    /\ UNCHANGED otherDL

DL_DecodeCollection ==
    /\ dl.pc = "idle"
    /\ \E kind \in {"extensible_back", "random_extensible"},
          size \in ElementCounts, data \in DataBytesAfter,
          elem \in ElementSizes, alloc \in {"ok", "bad_alloc"} :
          /\ (kind = "extensible_back" /\ ~SizeAtMost(size, MaxReserve))
                => alloc = "bad_alloc"
          /\ (kind = "random_extensible" /\ elem = 0)
                => SizeAtMost(size, MaxReserve + 1)
          /\ dl' = decode_header(kind, encodeCompact(size).bytes \o data,
                                 elem, alloc)
    /\ UNCHANGED otherDL

\* A prefix that is cut short or redundant.
DL_DecodeBadPrefix ==
    /\ dl.pc = "idle"
    /\ \E kind \in BitVectorKinds \cup {"extensible_back", "random_extensible"},
          in \in {<<>>, <<1>>, <<1, 0>>, <<19, 255>>} :
          dl' = decode_header(kind, in, 1, "ok")
    /\ UNCHANGED otherDL

DL_Iterate ==
    /\ dl.pc = "loop"
    /\ dl' = decode_iteration(dl)
    /\ UNCHANGED otherDL

DL_Return ==
    /\ dl.pc = "done"
    /\ dl' = NoDecode
    /\ UNCHANGED otherDL

InitDecode ==
    /\ IdleSBV /\ IdleCompact /\ IdleAppend /\ IdleBV /\ IdleSource
    /\ IdleSink /\ IdleCodec /\ IdleDecode

NextDecode ==
    \/ DL_DecodeBitVector \/ DL_DecodeCollection \/ DL_DecodeBadPrefix
    \/ DL_Iterate \/ DL_Return

SpecDecode == InitDecode /\ [][NextDecode]_vars

\* A decode that has started runs its loop: the code between the header
\* and the return is sequential.
SpecDecodeFair == SpecDecode /\ WF_vars(DL_Iterate)

--------------------------------------------------------------------------
(* Claims about decoding step by step.                                     *)

\* enum class DecodeError
DecodeErrors ==
    {"NOT_ENOUGH_DATA", "UNEXPECTED_VALUE", "TOO_MANY_ITEMS",
     "WRONG_TYPE_INDEX", "INVALID_ENUM_VALUE", "UNUSED_BITS_ARE_SET",
     "REDUNDANT_COMPACT_ENCODING", "DECODED_VALUE_OVERFLOWS_TARGET"}

\* A decode whose loop has started reaches its end.
DecodeTerminates == (dl.pc = "loop") ~> (dl.pc = "done")

\* C24: every decode call on a finite input terminates, no decode loop
\* running without bound, and it ends by returning a value or by raising
\* a decode error.
C24_DecodeTerminates ==
    /\ DecodeTerminates
    /\ [](dl.pc = "done" => dl.err \in {"none"} \cup DecodeErrors)

--------------------------------------------------------------------------
(* Decoding into a collection that already holds elements.  A type is the  *)
(* sequence of the kinds of its nested collections, outermost first, over  *)
(* uint8_t: <<>> is uint8_t, <<"resizeable", "resizeable">> is             *)
(* std::vector<std::vector<uint8_t>>.  A value is a byte or the sequence   *)
(* of a collection's elements in iteration order.  A decode returns        *)
(* [err, value, at]: the target as it is left and the decoder's position.  *)

IntoResult(err, value, at) == [err |-> err, value |-> value, at |-> at]

\* A value-initialized object of type T.
value_initialized(T) == IF T = <<>> THEN 0 ELSE <<>>

\* collection.resize(n)
collection_resize(T, c, n) ==
    [i \in 1..n |-> IF i <= Len(c) THEN c[i] ELSE value_initialized(Tail(T))]

\* std::set<uint8_t>::emplace(item)
set_emplace(c, item) ==
    IF \E i \in 1..Len(c) : c[i] = item THEN c
    ELSE LET below == Cardinality({i \in 1..Len(c) : c[i] < item})
         IN  SubSeq(c, 1, below) \o <<item>> \o SubSeq(c, below + 1, Len(c))

\* A preparation that leaves the target's elements where they are.
prepare_collection_kept(kind, T, collection, item_count) ==
    IF kind = "resizeable"
    THEN collection_resize(T, collection,
                           IF item_count > Len(collection) THEN item_count
                           ELSE Len(collection))
    ELSE collection

\* The target before the element loop: collection.clear() for the
\* extensible kinds, collection.resize(item_count) for the resizeable one.
prepare_collection(kind, T, collection, item_count) ==
    IF kind = "resizeable" THEN collection_resize(T, collection, item_count)
    ELSE <<>>

RECURSIVE decode_into(_, _, _, _)
RECURSIVE decode_elements(_, _, _, _, _, _)

\* The element loop of the three decoders from element i on, c the
\* collection so far.
decode_elements(T, c, item_count, i, w, at) ==
    IF i > item_count THEN IntoResult("none", c, at)
    ELSE
    LET kind == Head(T)
        \* for (item : collection) decode(item);  emplace_back() then
        \* decode(back());  value_type item{} then decode(item)
        item == IF kind = "resizeable" THEN c[i] ELSE value_initialized(Tail(T))
        r == decode_into(Tail(T), item, w, at)
        stored == CASE kind = "resizeable" -> [c EXCEPT ![i] = r.value]
                    [] kind = "extensible_back" -> Append(c, r.value)
                    [] OTHER -> IF r.err = "none" THEN set_emplace(c, r.value)
                                ELSE c
    IN  IF r.err # "none" THEN IntoResult(r.err, stored, r.at)
        ELSE decode_elements(T, stored, item_count, i + 1, w, r.at)

\* decode(target, decoder) for a target of type T holding value, the
\* decoder at offset at of the bytes w.
decode_into(T, value, w, at) ==
    IF T = <<>> THEN
        IF at < Len(w) THEN IntoResult("none", w[at + 1], at + 1)
        ELSE IntoResult("NOT_ENOUGH_DATA", value, at)
    ELSE
    LET c == decodeCompactAs(SubSeq(w, at + 1, Len(w)), size_t_digits)
    IN  IF c.err # "none" THEN IntoResult(c.err, value, at)
        ELSE IF TooManyItems(c.value, vector_max_size)
        THEN IntoResult("TOO_MANY_ITEMS", value, at + c.used)
        ELSE IF ~SizeAtMost(c.value, MaxReserve)
        \* reserve or resize throws std::bad_alloc; a set is filled until
        \* the bytes run out
        THEN IF Head(T) = "random_extensible"
             THEN decode_elements(T, <<>>, Len(w) + 1, 1, w, at + c.used)
             ELSE IntoResult("TOO_MANY_ITEMS",
                             IF Head(T) = "resizeable" THEN value ELSE <<>>,
                             at + c.used)
        ELSE LET item_count == DigitsToNat(c.value)
             IN  decode_elements(T,
                     prepare_collection(Head(T), T, value, item_count),
                     item_count, 1, w, at + c.used)

RECURSIVE encode_value(_, _)
RECURSIVE encode_each(_, _, _)

encode_each(T, c, i) ==
    IF i > Len(c) THEN <<>>
    ELSE encode_value(Tail(T), c[i]) \o encode_each(T, c, i + 1)

\* encode(DynamicCollection, encoder): the compact size, then every item.
encode_value(T, value) ==
    IF T = <<>> THEN <<value>>
    ELSE encodeCompact(NatToDigits(Len(value))).bytes \o encode_each(T, value, 1)

\* The types decoded into.
IntoTypes ==
    {<<"resizeable">>, <<"extensible_back">>, <<"random_extensible">>,
     <<"resizeable", "resizeable">>, <<"resizeable", "random_extensible">>,
     <<"extensible_back", "resizeable">>}

MaxElems == 2

ElemBytes == {1, 2}



\* Values of a sequence type of the given depth, encoded to give the wires.
ValuesOfDepth(depth) ==
    IF depth = 1 THEN SeqsUpTo(ElemBytes, MaxElems)
    ELSE SeqsUpTo(SeqsUpTo(ElemBytes, MaxElems), MaxElems)

\* Encoded collections, whole and with the last byte missing.
IntoWires(T) ==
    LET V == IF Len(T) = 1 THEN <<"resizeable">>
             ELSE <<"resizeable", "resizeable">>
        whole == {encode_value(V, v) : v \in ValuesOfDepth(Len(T))}
    IN  whole \cup {SubSeq(w, 1, Len(w) - 1) : w \in whole}

\* What a collection of the kind holds before the decode.
Filled(kind) ==
    IF kind = "random_extensible" THEN <<7, 255>> ELSE <<255, 255, 255>>

PreviousTargets(T) ==
    IF Len(T) = 1 THEN {<<>>, Filled(T[1])}
    ELSE {<<>>, <<Filled(T[2]), <<255>>, <<>> >>}

CD_DecodeInto ==
    /\ CodecReady
    /\ \E T \in IntoTypes :
        \E target \in PreviousTargets(T), w \in IntoWires(T) :
            CodecStep([op |-> "decode_into", T |-> T, target |-> target,
                       wire |-> w],
                      decode_into(T, target, w, 0))

NextInto == CD_DecodeInto \/ CD_Return

SpecInto == InitCodec /\ [][NextInto]_vars

--------------------------------------------------------------------------
(* Claims about decoding into a collection.                                *)

DecodedInto == cd_pc = "returned" /\ cd_call.op = "decode_into"

\* C26: after a successful decode into a dynamic collection that already
\* holds elements, the target equals what decoding the same bytes into a
\* freshly constructed target gives; for the sequence kinds these are the
\* decoded elements in order, so encoding the target gives back the bytes
\* the decode read.
C26_DecodeReplacesContents ==
    (DecodedInto /\ cd_ret.err = "none") =>
        LET T == cd_call.T
            fresh == decode_into(T, value_initialized(T), cd_call.wire, 0)
        IN  /\ cd_ret.value = fresh.value
            /\ cd_ret.at = fresh.at
            /\ (\A i \in 1..Len(T) : T[i] # "random_extensible") =>
                   encode_value(T, cd_ret.value)
                       = SubSeq(cd_call.wire, 1, cd_ret.at)

\* Fewer elements than the target held were decoded into it, the first of
\* them into an element that held state; likewise for a cleared kind.
C26_Witness ==
    /\ DecodedInto /\ cd_ret.err = "none"
    /\ Len(cd_call.T) = 2
    /\ cd_call.T[1] = "resizeable"
    /\ Len(cd_call.target) > Len(cd_ret.value)
    /\ Len(cd_ret.value) > 0
    /\ Len(cd_ret.value[1]) > 0
    /\ Len(cd_ret.value[1]) < Len(cd_call.target[1])

\* C30: after a successful decode of a set or map the number of elements
\* of the target is the count the length prefix declared, so encoding the
\* target starts with the same length prefix.
C30_SetCountIsDeclared ==
    (DecodedInto /\ cd_ret.err = "none"
         /\ cd_call.T = <<"random_extensible">>) =>
        LET declared == decodeCompact(cd_call.wire)
        IN  /\ NatToDigits(Len(cd_ret.value)) = declared.value
            /\ SubSeq(encode_value(cd_call.T, cd_ret.value), 1, declared.used)
                   = SubSeq(cd_call.wire, 1, declared.used)

\* What the set decoder does give: the distinct decoded elements, in order.
SetHoldsDistinctElements ==
    (DecodedInto /\ cd_ret.err = "none"
         /\ cd_call.T = <<"random_extensible">>) =>
        LET w == cd_call.wire
            declared == decodeCompact(w)
            n == DigitsToNat(declared.value)
        IN  /\ {cd_ret.value[i] : i \in 1..Len(cd_ret.value)}
                   = {w[declared.used + i] : i \in 1..n}
            /\ \A i \in 1..(Len(cd_ret.value) - 1) :
                   cd_ret.value[i] < cd_ret.value[i + 1]


\* A decode of a bit vector has read its length prefix.
BitVectorDecoding == dl.pc # "idle" /\ dl.kind \in BitVectorKinds

\* The decode at hand asks for ceil(L / 8) bytes and, when fewer remain,
\* raises NOT_ENOUGH_DATA with the target and the decoder as they were.
ExactByteCount ==
    LET ceil == byte_count_divided_first(dl.size)
    IN  /\ dl.need = ceil
        /\ ~SizeAtMost(ceil, Len(dl.in) - dl.from) =>
               /\ dl.pc = "done"
               /\ dl.err = "NOT_ENOUGH_DATA"
               /\ ~dl.touched
               /\ dl.it = dl.from

\* C29: for every declared bit length L representable as a size_t, decoding
\* a BitVec, SmallBitVector or BitVector requires exactly ceil(L / 8) data
\* bytes: the byte count never wraps around, and when fewer bytes remain
\* the decode fails with NOT_ENOUGH_DATA before the target is modified.
C29_ExactByteCountForEveryLength == BitVectorDecoding => ExactByteCount

\* What does hold: the same for every length up to 2^64 - 8, the largest
\* for which size + 7 is a size_t.
ExactByteCountBelowWrap ==
    LET largest == [i \in 1..sizeof_size_t |->
                       IF i = 1 THEN 255 - (CHAR_BIT - 1) ELSE 255]
    IN  (BitVectorDecoding /\ ~DigitsGreater(dl.size, largest))
            => ExactByteCount

==========================================================================
